---- MODULE Spec2Model ----
(***************************************************************************)
(* A model of Python/crossinterp.c: cross-interpreter data (handles), the  *)
(* deferred release of a handle on its owning interpreter, shared          *)
(* namespaces, cross-interpreter sessions and exception snapshots.         *)
(*                                                                         *)
(* C functions are operators over a "world" record w = [xid, pend, err]    *)
(* (the handle heap, the per-interpreter pending-call queues and the       *)
(* calling thread's pending exception) so that a function that calls       *)
(* another is the composition of the two operators.                        *)
(***************************************************************************)
EXTENDS Integers, Sequences, FiniteSets, TLC

VARIABLES
    alive,      \* the ids of the interpreters that exist
    registry,   \* the process-wide registry: a list of entries, head first
    vals,       \* the objects this run shares
    xid,        \* the _PyCrossInterpreterData structs, by address
    pend,       \* each interpreter's queue of pending calls
    ns,         \* the shared namespace (_PyXI_namespace) under construction
    last,       \* the last call made and what it returned
    tstates,    \* the thread states (PyThreadState), by address
    current,    \* each thread's current thread state
    running_main, \* each interpreter's running-main owner, 0 when it has none
    main_dict,  \* each interpreter's __main__ bindings
    sessions,   \* the _PyXI_session structs
    slast,      \* the last session call made and what it returned
    types,      \* the heap types, by address
    iregistry,  \* each interpreter's registry (of heap types)
    rlast,      \* the last registry call made and what it returned
    mutex,      \* the process-wide registry's mutex: the thread holding it, or 0
    rthreads,   \* where each thread stands in its registry call
    links       \* the registries as the linked lists of entries they are in memory

sessvars == <<tstates, current, running_main, main_dict, sessions, slast>>
regvars == <<types, iregistry, rlast, mutex, rthreads, links>>
vars == <<alive, registry, vals, xid, pend, ns, last, sessvars, regvars>>

(***************************************************************************)
(* Bounds of the model.                                                    *)
(***************************************************************************)
MaxXid == 2         \* addresses of _PyCrossInterpreterData structs
MaxDirect == 1      \* structs that callers fill directly (outside a namespace)
MaxPending == 2     \* capacity of a pending-call queue
WordBits == 3       \* width of Py_ssize_t and of a pointer

\* The interpreters: the main one (id 0) and one other.
Interps == {0, 1}
XidIds == 1..MaxXid

RECURSIVE Pow2(_)
Pow2(n) == IF n = 0 THEN 1 ELSE 2 * Pow2(n - 1)

PY_SSIZE_T_MAX == Pow2(WordBits - 1) - 1
PY_SSIZE_T_MIN == -Pow2(WordBits - 1)

(***************************************************************************)
(* Objects.  An object is its type and its contents, a sequence of         *)
(* integers: <<>> for None, <<0>> or <<1>> for a bool, <<n>> for an int,   *)
(* <<d>> for a float (d names a double), the bytes of a bytes object, the  *)
(* code points of a str.                                                   *)
(***************************************************************************)
Obj(t, v) == [t |-> t, v |-> v]
NoObj == Obj("NULL", <<>>)

\* An exception: its type's name, its arguments (none, or one message) and
\* its __context__ (none, or one exception).  NoExc: no exception is pending.
Exc(t, m) == [t |-> t, args |-> <<m>>, ctx |-> <<>>]
ExcNone(t) == [t |-> t, args |-> <<>>, ctx |-> <<>>]
NoExc == ExcNone("")
PyErr_NoMemory == ExcNone("MemoryError")

BuiltinTypes == {"NoneType", "int", "bytes", "str", "bool", "float"}

IntObjs == {Obj("int", <<n>>) : n \in (PY_SSIZE_T_MIN - 1)..(PY_SSIZE_T_MAX + 1)}
ByteStrings == {<<>>, <<0>>, <<65, 0>>, <<0, 255, 7>>}
CodePoints == {<<>>, <<97>>, <<97, 233>>, <<8364, 98>>, <<128512>>}
AllValues ==
    {Obj("NoneType", <<>>), Obj("bool", <<0>>), Obj("bool", <<1>>)}
    \cup IntObjs
    \cup {Obj("float", <<d>>) : d \in {0, 1, 2}}
    \cup {Obj("bytes", b) : b \in ByteStrings}
    \cup {Obj("str", s) : s \in CodePoints}

\* What the handle and namespace specification shares: an int (nothing to
\* destroy), a bytes object (a block and a retained object), an object with no
\* registered producer, and an object of an extension type.
CoreValues ==
    {Obj("int", <<PY_SSIZE_T_MAX>>), Obj("bytes", <<65, 0>>), Obj("list", <<>>),
     Obj("custom", <<>>)}

(***************************************************************************)
(* The payload (data->data).  A pointer-sized word (NULL is the word 0),   *)
(* or a pointer to a block PyMem_RawMalloc returned, with what the block   *)
(* holds.                                                                  *)
(***************************************************************************)
Word(n) == [k |-> "word", w |-> n, buf |-> <<>>, len |-> 0, kind |-> 0]
Block(k, buf, len, kind) == [k |-> k, w |-> 1, buf |-> buf, len |-> len, kind |-> kind]
NULL == Word(0)
IsNull(d) == d.k = "word" /\ d.w = 0

\* (void *)value and (Py_ssize_t)(data->data): two's complement, WordBits wide
ToPointer(value) == value % Pow2(WordBits)
FromPointer(w) == IF w >= Pow2(WordBits - 1) THEN w - Pow2(WordBits) ELSE w

RECURSIVE SeqMax(_)
SeqMax(s) == IF s = <<>> THEN 0
             ELSE LET m == SeqMax(Tail(s)) IN IF Head(s) > m THEN Head(s) ELSE m

\* PyUnicode_KIND: the width in bytes of the widest code point
PyUnicode_KIND(s) == IF SeqMax(s) < 256 THEN 1 ELSE IF SeqMax(s) < 65536 THEN 2 ELSE 4

\* the first n items of a buffer
Take(s, n) == SubSeq(s, 1, n)

\* With([x \in {e} |-> body]) is body with x the value of e: the value a
\* call returned, which the code that follows reads more than once
With(f) == f[CHOOSE x \in DOMAIN f : TRUE]

(***************************************************************************)
(* _PyCrossInterpreterData.  mem is the state of the struct's own storage: *)
(* "none" (no struct at this address), "static" (storage the caller owns), *)
(* "heap" (PyMem_RawMalloc) or "freed".  born, nfree, ndecref and ranon    *)
(* are history: the interpreter that was current at produce (src: the      *)
(* object the struct was produced from, direct: by a caller's own call of  *)
(* _PyObject_GetCrossInterpreterData), how often                           *)
(* data->free and the decref of data->obj ran, and in which interpreters   *)
(* (gone: the owner did not exist then); held: the caller may still use    *)
(* the struct; nrel: the calls of _PyCrossInterpreterData_Release made on  *)
(* it; nnew: the calls of new_object made on it (counted to 2); relfrom:   *)
(* the interpreters a release of it was called in; fault: the struct was   *)
(* used after its storage was freed, or its storage was freed twice.       *)
(***************************************************************************)
XidBlank ==
    [mem |-> "none", interpid |-> -1, data |-> NULL, free |-> FALSE, obj |-> NoObj,
     new_object |-> "NULL", born |-> -1, nfree |-> 0, ndecref |-> 0, ranon |-> {},
     src |-> NoObj, direct |-> FALSE, held |-> FALSE, nrel |-> 0, nnew |-> 0,
     relfrom |-> {}, fault |-> FALSE]

\* *data = (_PyCrossInterpreterData){0}; data->interpid = -1;
_xidata_init(x) ==
    [x EXCEPT !.interpid = -1, !.data = NULL, !.free = FALSE, !.obj = NoObj,
              !.new_object = "NULL"]

\* a _xidata_clear that leaves data->data set after freeing it
xidata_clear_keeps_data(x, cur) ==
    LET ran == [on |-> cur, gone |-> x.interpid \notin alive]
    IN [x EXCEPT !.nfree = IF ~IsNull(x.data) /\ x.free THEN @ + 1 ELSE @,
                 !.ndecref = IF x.obj # NoObj THEN @ + 1 ELSE @,
                 !.ranon = @ \cup {ran},
                 !.obj = NoObj]

\* cur: the interpreter the calling thread is in
_xidata_clear(x, cur) ==
    LET freed == ~IsNull(x.data) /\ x.free
        ran == [on |-> cur, gone |-> x.interpid \notin alive]
        x1 == IF ~IsNull(x.data)
              THEN [x EXCEPT !.data = NULL,
                             !.nfree = IF freed THEN @ + 1 ELSE @,
                             !.ranon = IF freed THEN @ \cup {ran} ELSE @]
              ELSE x
    IN IF x1.obj # NoObj
       THEN [x1 EXCEPT !.obj = NoObj, !.ndecref = @ + 1, !.ranon = @ \cup {ran}]
       ELSE x1

\* interp = -1 stands for a NULL interpreter
_PyCrossInterpreterData_Init(x, interp, shared, obj, new_object) ==
    [_xidata_init(x) EXCEPT !.data = shared, !.obj = obj,
                            !.interpid = interp, !.new_object = new_object]

\* oom: PyMem_RawMalloc returns NULL.  block: what the caller then stores in
\* the block (the model fills it in at once).
_PyCrossInterpreterData_InitWithSize(x, interp, block, obj, new_object, oom) ==
    LET x1 == _PyCrossInterpreterData_Init(x, interp, NULL, obj, new_object)
    IN IF oom THEN [res |-> -1, x |-> x1]
       ELSE [res |-> 0, x |-> [x1 EXCEPT !.data = block, !.free = TRUE]]

_PyCrossInterpreterData_Clear(x, cur) == _xidata_clear(x, cur)

_check_xidata(x) ==
    IF x.interpid < 0 THEN [res |-> -1, err |-> Exc("SystemError", "missing interp")]
    ELSE IF x.new_object = "NULL"
         THEN [res |-> -1, err |-> Exc("SystemError", "missing new_object func")]
         ELSE [res |-> 0, err |-> NoExc]

(***************************************************************************)
(* The registries of {type -> getdata}.  A static type is its name; a heap *)
(* type is an address of HeapAddrs, which holds one type object after the  *)
(* other (gen numbers them).  An entry is a _xidregitem: weakref is <<>>   *)
(* for NULL, or the generation of the type object it refers to; nreg and   *)
(* nunreg are history: the calls of RegisterClass and UnregisterClass that *)
(* found or made it.  A registry is the list of its entries, head first.   *)
(***************************************************************************)
MaxGen == 1         \* type objects made anew at one address
MaxRefs == 2        \* RegisterClass calls counted by one entry

HeapAddrs == {"H1", "H2", "H3"}

\* the static type a heap type derives from
Base(cls) == IF cls = "H2" THEN "custom" ELSE "object"

\* cls->tp_flags & Py_TPFLAGS_HEAPTYPE
IsHeapType(cls) == cls \in HeapAddrs

PyWeakref_NewRef(cls) == <<types[cls].gen>>

\* TRUE when the object the weakref refers to still exists
_PyWeakref_GET_REF(cls, weakref) == types[cls].alive /\ types[cls].gen = weakref[1]

RegItem(cls, getdata, weakref) ==
    [cls |-> cls, refcount |-> 1, getdata |-> getdata, weakref |-> weakref,
     nreg |-> 1, nunreg |-> 0]

\* the type of the entry has not been destroyed
LiveItem(item) == item.weakref = <<>> \/ _PyWeakref_GET_REF(item.cls, item.weakref)

\* The registries a thread of interpreter cur sees: the process-wide one
\* and its interpreter's.
Registries(cur) == [global |-> registry, local |-> iregistry[cur]]

\* which of the two holds cls
_get_xidregistry_for_type(cls) == IF IsHeapType(cls) THEN "local" ELSE "global"

\* fail: "none", or the allocation that fails ("item", "weakref").  [reg, res]
_xidregistry_add_type(reg, cls, getdata, fail) ==
    IF fail = "item" THEN [reg |-> reg, res |-> -1]
    ELSE IF IsHeapType(cls) /\ fail = "weakref" THEN [reg |-> reg, res |-> -1]
    ELSE [reg |-> <<RegItem(cls, getdata,
                            IF IsHeapType(cls) THEN PyWeakref_NewRef(cls) ELSE <<>>)>>
                  \o reg,
          res |-> 0]

\* the registry without entry i; the entry that followed it is entry i now
_xidregistry_remove_entry(reg, i) ==
    [k \in 1..(Len(reg) - 1) |-> IF k < i THEN reg[k] ELSE reg[k + 1]]

\* Py_FatalError ends the process when a registration fails.
_register_builtins_for_crossinterpreter_data(reg) ==
    LET r1 == _xidregistry_add_type(reg, "NoneType", "_none_shared", "none").reg
        r2 == _xidregistry_add_type(r1, "int", "_long_shared", "none").reg
        r3 == _xidregistry_add_type(r2, "bytes", "_bytes_shared", "none").reg
        r4 == _xidregistry_add_type(r3, "str", "_str_shared", "none").reg
        r5 == _xidregistry_add_type(r4, "bool", "_bool_shared", "none").reg
    IN _xidregistry_add_type(r5, "float", "_float_shared", "none").reg

RECURSIVE FindFrom_cls_first(_, _, _)
\* a scan that compares the class of an entry before it looks at its weakref
FindFrom_cls_first(reg, cls, i) ==
    IF i > Len(reg) THEN [reg |-> reg, matched |-> 0]
    ELSE IF reg[i].cls = cls THEN [reg |-> reg, matched |-> i]
    ELSE FindFrom_cls_first(reg, cls, i + 1)

RECURSIVE FindFrom(_, _, _)
\* The scan from entry i on.  [reg, matched]: the registry as the scan
\* leaves it and the index in it of the entry found, 0 when there is none.
FindFrom(reg, cls, i) ==
    IF i > Len(reg) THEN [reg |-> reg, matched |-> 0]
    ELSE IF reg[i].weakref # <<>> /\ ~_PyWeakref_GET_REF(reg[i].cls, reg[i].weakref)
         THEN FindFrom(_xidregistry_remove_entry(reg, i), cls, i)
         ELSE IF reg[i].cls = cls THEN [reg |-> reg, matched |-> i]
              ELSE FindFrom(reg, cls, i + 1)

\* (not the code) a scan that compares the class before the weakref
find_type_cls_first(reg, cls) == FindFrom_cls_first(reg, cls, 1)

_xidregistry_find_type(reg, cls) == FindFrom(reg, cls, 1)

\* R: the registries of the calling interpreter.  [R, res, err]
_PyCrossInterpreterData_RegisterClass(R, cls, getdata, fail) ==
    IF getdata = "NULL"
    THEN [R |-> R, res |-> -1, err |-> Exc("ValueError", "missing 'getdata' func")]
    ELSE LET which == _get_xidregistry_for_type(cls)
         IN With([f \in {_xidregistry_find_type(R[which], cls)} |->
                IF f.matched # 0
                THEN [R |-> [R EXCEPT ![which] =
                                [f.reg EXCEPT ![f.matched].refcount = @ + 1,
                                              ![f.matched].nreg = @ + 1]],
                      res |-> 0, err |-> NoExc]
                ELSE With([a \in {_xidregistry_add_type(f.reg, cls, getdata, fail)} |->
                         [R |-> [R EXCEPT ![which] = a.reg], res |-> a.res,
                          err |-> NoExc]])])

\* an UnregisterClass that removes the entry whatever its refcount
UnregisterClass_always_removes(R, cls) ==
    LET which == _get_xidregistry_for_type(cls)
    IN With([f \in {_xidregistry_find_type(R[which], cls)} |->
           IF f.matched # 0
           THEN [R |-> [R EXCEPT ![which] = _xidregistry_remove_entry(f.reg, f.matched)],
                 res |-> 1]
           ELSE [R |-> [R EXCEPT ![which] = f.reg], res |-> 0]])

\* [R, res]
_PyCrossInterpreterData_UnregisterClass(R, cls) ==
    LET which == _get_xidregistry_for_type(cls)
    IN With([f \in {_xidregistry_find_type(R[which], cls)} |->
           IF f.matched # 0
           THEN LET reg1 == [f.reg EXCEPT ![f.matched].refcount = @ - 1,
                                          ![f.matched].nunreg = @ + 1]
                IN [R |-> [R EXCEPT ![which] =
                               IF reg1[f.matched].refcount = 0
                               THEN _xidregistry_remove_entry(reg1, f.matched)
                               ELSE reg1],
                    res |-> 1]
           ELSE [R |-> [R EXCEPT ![which] = f.reg], res |-> 0]])

\* Py_TYPE(obj) is matched exactly.  [R, func]
_lookup_getdata_from_registry(R, obj) ==
    LET cls == obj.t
        which == _get_xidregistry_for_type(cls)
    IN With([f \in {_xidregistry_find_type(R[which], cls)} |->
           [R |-> [R EXCEPT ![which] = f.reg],
            func |-> IF f.matched # 0 THEN f.reg[f.matched].getdata ELSE "NULL"]])

\* Only the process-wide registry has a mutex (registry->mutex != NULL).
\* m is the mutex: the thread that holds it, or 0.
HasMutex(which) == which = "global"

\* (not the code) a lock that is taken without waiting for its holder
lock_without_waiting(which, m, t) == [ok |-> TRUE, mutex |-> IF HasMutex(which) THEN t ELSE m]

\* PyThread_acquire_lock(registry->mutex, WAIT_LOCK) returns once the mutex
\* is free.  [ok, mutex]: ok is FALSE while the caller has to wait.
_xidregistry_lock(which, m, t) ==
    IF HasMutex(which) THEN [ok |-> m = 0, mutex |-> t]
    ELSE [ok |-> TRUE, mutex |-> m]

_xidregistry_unlock(which, m) == IF HasMutex(which) THEN 0 ELSE m

(***************************************************************************)
(* The registries as they are in memory.  A _xidregitem lives at an        *)
(* address of ItemAddrs and names its neighbours by address, 0 for NULL;   *)
(* a struct _xidregistry is its initialized flag and the address of its    *)
(* head.  links holds the process-wide registry, each interpreter's        *)
(* registry and the memory of the entries.                                 *)
(***************************************************************************)
MaxItems == 8       \* addresses of _xidregitem structs

ItemAddrs == 1..MaxItems

\* memory that holds no entry
ItemFree == [used |-> FALSE, cls |-> "", refcount |-> 0, getdata |-> "NULL",
             weakref |-> <<>>, prev |-> 0, next |-> 0]

RegistryBlank == [initialized |-> FALSE, head |-> 0]

LinksBlank == [global |-> RegistryBlank,
               local |-> [i \in Interps |-> RegistryBlank],
               item |-> [a \in ItemAddrs |-> ItemFree]]

\* _get_global_xidregistry and _get_xidregistry
RegistryAt(L, which, cur) == IF which = "global" THEN L.global ELSE L.local[cur]

SetHead(L, which, cur, head) ==
    IF which = "global" THEN [L EXCEPT !.global.head = head]
    ELSE [L EXCEPT !.local[cur].head = head]

SetInitialized(L, which, cur, flag) ==
    IF which = "global" THEN [L EXCEPT !.global.initialized = flag]
    ELSE [L EXCEPT !.local[cur].initialized = flag]

\* the address of a free struct, 0 (NULL) when there is none
PyMem_RawMalloc(L) ==
    LET free == {a \in ItemAddrs : ~L.item[a].used}
    IN IF free = {} THEN 0 ELSE CHOOSE a \in free : \A b \in free : a <= b

\* (not the code) an add that leaves the old head's prev as it was
add_type_no_back_link(L, which, cur, cls, getdata, fail) ==
    LET newhead == PyMem_RawMalloc(L)
        head == RegistryAt(L, which, cur).head
    IN IF fail = "item" \/ newhead = 0 THEN [L |-> L, res |-> -1]
       ELSE IF IsHeapType(cls) /\ fail = "weakref" THEN [L |-> L, res |-> -1]
       ELSE [L |-> SetHead([L EXCEPT !.item[newhead] =
                               [used |-> TRUE, cls |-> cls, refcount |-> 1,
                                getdata |-> getdata,
                                weakref |-> IF IsHeapType(cls)
                                            THEN PyWeakref_NewRef(cls) ELSE <<>>,
                                prev |-> 0, next |-> head]],
                           which, cur, newhead),
             res |-> 0]

\* _xidregistry_add_type on the list in memory.  [L, res]
add_type_linked(L, which, cur, cls, getdata, fail) ==
    LET newhead == PyMem_RawMalloc(L)
        head == RegistryAt(L, which, cur).head
    IN IF fail = "item" \/ newhead = 0 THEN [L |-> L, res |-> -1]
       ELSE IF IsHeapType(cls) /\ fail = "weakref" THEN [L |-> L, res |-> -1]
       ELSE LET L1 == [L EXCEPT !.item[newhead] =
                          [used |-> TRUE, cls |-> cls, refcount |-> 1,
                           getdata |-> getdata,
                           weakref |-> IF IsHeapType(cls)
                                       THEN PyWeakref_NewRef(cls) ELSE <<>>,
                           prev |-> 0, next |-> head]]
                L2 == IF head # 0 THEN [L1 EXCEPT !.item[head].prev = newhead] ELSE L1
            IN [L |-> SetHead(L2, which, cur, newhead), res |-> 0]

\* _xidregistry_remove_entry on the list in memory.  [L, next]
remove_entry_linked(L, which, cur, entry) ==
    LET e == L.item[entry]
        L1 == IF e.prev # 0 THEN [L EXCEPT !.item[e.prev].next = e.next]
              ELSE SetHead(L, which, cur, e.next)
        L2 == IF e.next # 0 THEN [L1 EXCEPT !.item[e.next].prev = e.prev] ELSE L1
    IN [L |-> [L2 EXCEPT !.item[entry] = ItemFree], next |-> e.next]

RECURSIVE FreeFrom(_, _)
\* the loop of _xidregistry_clear from entry e on
FreeFrom(item, e) ==
    IF e = 0 THEN item
    ELSE FreeFrom([item EXCEPT ![e] = ItemFree], item[e].next)

_xidregistry_clear(L, which, cur) ==
    SetHead([L EXCEPT !.item = FreeFrom(L.item, RegistryAt(L, which, cur).head)],
            which, cur, 0)

RECURSIVE FindLinked(_, _, _, _, _)
\* The loop of _xidregistry_find_type from entry e on.  [L, found]: found
\* is the address of the entry, 0 when there is none.
FindLinked(L, which, cur, cls, e) ==
    IF e = 0 THEN [L |-> L, found |-> 0]
    ELSE IF /\ L.item[e].weakref # <<>>
            /\ ~_PyWeakref_GET_REF(L.item[e].cls, L.item[e].weakref)
         THEN With([r \in {remove_entry_linked(L, which, cur, e)} |->
                  FindLinked(r.L, which, cur, cls, r.next)])
         ELSE IF L.item[e].cls = cls THEN [L |-> L, found |-> e]
              ELSE FindLinked(L, which, cur, cls, L.item[e].next)

find_type_linked(L, which, cur, cls) ==
    FindLinked(L, which, cur, cls, RegistryAt(L, which, cur).head)

\* (not the code) a registration that always uses the process-wide registry
RegisterClass_global_only(L, cur, cls, getdata, fail) ==
    IF getdata = "NULL"
    THEN [L |-> L, res |-> -1, err |-> Exc("ValueError", "missing 'getdata' func")]
    ELSE With([f \in {find_type_linked(L, "global", cur, cls)} |->
            IF f.found # 0
            THEN [L |-> [f.L EXCEPT !.item[f.found].refcount = @ + 1],
                  res |-> 0, err |-> NoExc]
            ELSE With([a \in {add_type_linked(f.L, "global", cur, cls, getdata, fail)} |->
                     [L |-> a.L, res |-> a.res, err |-> NoExc]])])

\* _PyCrossInterpreterData_RegisterClass called in interpreter cur.  [L, res, err]
RegisterClass_linked(L, cur, cls, getdata, fail) ==
    IF getdata = "NULL"
    THEN [L |-> L, res |-> -1, err |-> Exc("ValueError", "missing 'getdata' func")]
    ELSE LET which == _get_xidregistry_for_type(cls)
         IN With([f \in {find_type_linked(L, which, cur, cls)} |->
                IF f.found # 0
                THEN [L |-> [f.L EXCEPT !.item[f.found].refcount = @ + 1],
                      res |-> 0, err |-> NoExc]
                ELSE With([a \in {add_type_linked(f.L, which, cur, cls, getdata,
                                                  fail)} |->
                         [L |-> a.L, res |-> a.res, err |-> NoExc]])])

\* _PyCrossInterpreterData_UnregisterClass called in interpreter cur.  [L, res]
UnregisterClass_linked(L, cur, cls) ==
    LET which == _get_xidregistry_for_type(cls)
    IN With([f \in {find_type_linked(L, which, cur, cls)} |->
           IF f.found # 0
           THEN LET L1 == [f.L EXCEPT !.item[f.found].refcount = @ - 1]
                IN [L |-> IF L1.item[f.found].refcount = 0
                          THEN remove_entry_linked(L1, which, cur, f.found).L
                          ELSE L1,
                    res |-> 1]
           ELSE [L |-> f.L, res |-> 0]])

\* _lookup_getdata_from_registry called in interpreter cur.  [L, func]
lookup_linked(L, cur, cls) ==
    LET which == _get_xidregistry_for_type(cls)
    IN With([f \in {find_type_linked(L, which, cur, cls)} |->
           [L |-> f.L,
            func |-> IF f.found # 0 THEN f.L.item[f.found].getdata ELSE "NULL"]])

\* the six registrations of _register_builtins_for_crossinterpreter_data;
\* Py_FatalError ends the process when one fails
BuiltinGetdata ==
    <<<<"NoneType", "_none_shared">>, <<"int", "_long_shared">>,
      <<"bytes", "_bytes_shared">>, <<"str", "_str_shared">>,
      <<"bool", "_bool_shared">>, <<"float", "_float_shared">>>>

RECURSIVE RegisterBuiltinsFrom(_, _)
RegisterBuiltinsFrom(L, k) ==
    IF k > Len(BuiltinGetdata) THEN L
    ELSE RegisterBuiltinsFrom(
             add_type_linked(L, "global", 0, BuiltinGetdata[k][1], BuiltinGetdata[k][2],
                             "none").L,
             k + 1)

register_builtins_linked(L) == RegisterBuiltinsFrom(L, 1)

\* (not the code) an init that registers the built-in types whenever called
init_without_flag(L, which, cur) ==
    IF which = "global"
    THEN register_builtins_linked(SetInitialized(L, which, cur, TRUE))
    ELSE SetInitialized(L, which, cur, TRUE)

_xidregistry_init(L, which, cur) ==
    IF RegistryAt(L, which, cur).initialized THEN L
    ELSE IF which = "global"
         THEN register_builtins_linked(SetInitialized(L, which, cur, TRUE))
         ELSE SetInitialized(L, which, cur, TRUE)

_xidregistry_fini(L, which, cur) ==
    IF ~RegistryAt(L, which, cur).initialized THEN L
    ELSE _xidregistry_clear(SetInitialized(L, which, cur, FALSE), which, cur)

_Py_IsMainInterpreter(interp) == interp = 0

\* exctype: FALSE when _init_not_shareable_error_type fails.  [L, status]
_PyXI_Init(L, interp, exctype) ==
    LET L1 == IF _Py_IsMainInterpreter(interp)
              THEN _xidregistry_init(L, "global", interp) ELSE L
    IN [L |-> _xidregistry_init(L1, "local", interp),
        status |-> IF exctype THEN "ok" ELSE "could not initialize NotShareableError"]

_PyXI_Fini(L, interp) ==
    LET L1 == _xidregistry_fini(L, "local", interp)
    IN IF _Py_IsMainInterpreter(interp) THEN _xidregistry_fini(L1, "global", interp)
       ELSE L1

(***************************************************************************)
(* The getdata functions of the built-in types and their new_object        *)
(* functions.  A getdata result is [res, err, x]: the return value, the    *)
(* exception it set and the struct it filled.                              *)
(***************************************************************************)
GetdataResult(res, err, x) == [res |-> res, err |-> err, x |-> x]

_bytes_shared(x, obj, cur, oom) ==
    LET r == _PyCrossInterpreterData_InitWithSize(
                 x, cur, Block("bytes", obj.v, Len(obj.v), 0), obj,
                 "_new_bytes_object", oom)
    IN GetdataResult(r.res, NoExc, r.x)

_str_shared(x, obj, cur, oom) ==
    LET r == _PyCrossInterpreterData_InitWithSize(
                 x, cur, Block("str", obj.v, Len(obj.v), PyUnicode_KIND(obj.v)), obj,
                 "_new_str_object", oom)
    IN GetdataResult(r.res, NoExc, r.x)

_long_shared(x, obj, cur) ==
    LET value == obj.v[1]
    IN IF value > PY_SSIZE_T_MAX \/ value < PY_SSIZE_T_MIN
       THEN GetdataResult(-1, Exc("OverflowError", "try sending as bytes"), x)
       ELSE GetdataResult(0, NoExc,
                _PyCrossInterpreterData_Init(x, cur, Word(ToPointer(value)), NoObj,
                                             "_new_long_object"))

_float_shared(x, obj, cur, oom) ==
    LET r == _PyCrossInterpreterData_InitWithSize(
                 x, cur, Block("dbl", obj.v, 0, 0), NoObj, "_new_float_object", oom)
    IN GetdataResult(r.res, NoExc, r.x)

_none_shared(x, obj, cur) ==
    GetdataResult(0, NoExc,
        _PyCrossInterpreterData_Init(x, cur, NULL, NoObj, "_new_none_object"))

_bool_shared(x, obj, cur) ==
    GetdataResult(0, NoExc,
        _PyCrossInterpreterData_Init(
            x, cur, Word(IF obj.v[1] # 0 THEN 1 ELSE 0), NoObj, "_new_bool_object"))

(***************************************************************************)
(* A getdata function registered by an extension.  What it does is an     *)
(* input: it may fail, store no interpreter or another one, leave          *)
(* new_object unset, allocate a block or retain the object.                *)
(***************************************************************************)
CustomBehaviour(fail, id, newobj, blk, keep) ==
    [fail |-> fail, id |-> id, newobj |-> newobj, blk |-> blk, keep |-> keep]

CustomBehaviours ==
    {CustomBehaviour(FALSE, "cur", TRUE, TRUE, TRUE),
     CustomBehaviour(FALSE, "unset", TRUE, FALSE, TRUE),
     CustomBehaviour(FALSE, "other", TRUE, TRUE, FALSE),
     CustomBehaviour(FALSE, "cur", FALSE, TRUE, TRUE),
     CustomBehaviour(TRUE, "cur", TRUE, FALSE, FALSE)}

Builtin == CustomBehaviour(FALSE, "cur", TRUE, FALSE, FALSE)

_custom_shared(x, obj, cur, cp) ==
    IF cp.fail THEN GetdataResult(-1, Exc("ValueError", "custom getdata failed"), x)
    ELSE LET id == IF cp.id = "cur" THEN cur
                   ELSE IF cp.id = "unset" THEN -1
                        ELSE CHOOSE i \in Interps : i # cur
             x1 == _PyCrossInterpreterData_Init(
                       x, id, IF cp.blk THEN Block("custom", <<>>, 0, 0) ELSE NULL,
                       IF cp.keep THEN obj ELSE NoObj,
                       IF cp.newobj THEN "_new_custom_object" ELSE "NULL")
         IN GetdataResult(0, NoExc, [x1 EXCEPT !.free = cp.blk])

CallGetdata(getdata, x, obj, cur, oom, cp) ==
    CASE getdata = "_none_shared" -> _none_shared(x, obj, cur)
      [] getdata = "_long_shared" -> _long_shared(x, obj, cur)
      [] getdata = "_bytes_shared" -> _bytes_shared(x, obj, cur, oom)
      [] getdata = "_str_shared" -> _str_shared(x, obj, cur, oom)
      [] getdata = "_bool_shared" -> _bool_shared(x, obj, cur)
      [] getdata = "_float_shared" -> _float_shared(x, obj, cur, oom)
      [] getdata = "_custom_shared" -> _custom_shared(x, obj, cur, cp)

\* PyUnicode_FromKindAndData reads len items of kind bytes each (an item of
\* 4 bytes holds every code point)
FromKindAndData(kind, buf, len) ==
    [i \in 1..len |-> IF kind = 4 THEN buf[i] ELSE buf[i] % Pow2(8 * kind)]

_new_bytes_object(x) == Obj("bytes", Take(x.data.buf, x.data.len))
_new_str_object(x) == Obj("str", FromKindAndData(x.data.kind, x.data.buf, x.data.len))
\* a _new_long_object that reads the pointer as an unsigned number
new_long_object_unsigned(x) == Obj("int", <<x.data.w>>)

_new_long_object(x) == Obj("int", <<FromPointer(x.data.w)>>)
_new_float_object(x) == Obj("float", x.data.buf)
_new_none_object(x) == Obj("NoneType", <<>>)
_new_bool_object(x) == IF ~IsNull(x.data) THEN Obj("bool", <<1>>) ELSE Obj("bool", <<0>>)
_new_custom_object(x) == Obj("custom", <<>>)

\* data->new_object(data): the new object, and the struct as the call leaves it
_PyCrossInterpreterData_NewObject(x) ==
    [x |-> x,
     obj |-> CASE x.new_object = "_new_bytes_object" -> _new_bytes_object(x)
               [] x.new_object = "_new_str_object" -> _new_str_object(x)
               [] x.new_object = "_new_long_object" -> _new_long_object(x)
               [] x.new_object = "_new_float_object" -> _new_float_object(x)
               [] x.new_object = "_new_none_object" -> _new_none_object(x)
               [] x.new_object = "_new_bool_object" -> _new_bool_object(x)
               [] x.new_object = "_new_custom_object" -> _new_custom_object(x)]

(***************************************************************************)
(* The world a C function runs in: the structs, the pending-call queues    *)
(* and the calling thread's pending exception.                             *)
(***************************************************************************)
World(x, p, e) == [xid |-> x, pend |-> p, err |-> e]

PendingCall(h, rawfree) == [arg |-> h, rawfree |-> rawfree]

\* PyMem_RawFree of a struct's own storage
PyMem_RawFree(x) ==
    IF x.mem = "heap" THEN [x EXCEPT !.mem = "freed"] ELSE [x EXCEPT !.fault = TRUE]

\* A use of the struct by a C function: a fault when its storage is freed.
Touch(x) == IF x.mem = "freed" THEN [x EXCEPT !.fault = TRUE] ELSE x

\* The queue is bounded; a call that does not fit is dropped and the caller
\* is told so (both callers ignore it).
_PyEval_AddPendingCall(w, interp, call) ==
    IF Len(w.pend[interp]) < MaxPending
    THEN [w EXCEPT !.pend[interp] = Append(@, call)]
    ELSE w

_call_clear_xidata(w, h, cur) == [w EXCEPT !.xid[h] = _xidata_clear(Touch(@), cur)]

\* a _Py_CallInInterpreter that makes the call in whatever interpreter is current
CallInInterpreter_here(w, interp, h, cur) == _call_clear_xidata(w, h, cur)

_Py_CallInInterpreter(w, interp, h, cur) ==
    IF interp = cur THEN _call_clear_xidata(w, h, cur)
    ELSE _PyEval_AddPendingCall(w, interp, PendingCall(h, FALSE))

_Py_CallInInterpreterAndRawFree(w, interp, h, cur) ==
    IF interp = cur
    THEN LET w1 == _call_clear_xidata(w, h, cur)
         IN [w1 EXCEPT !.xid[h] = PyMem_RawFree(@)]
    ELSE _PyEval_AddPendingCall(w, interp, PendingCall(h, TRUE))

\* _PyInterpreterState_LookUpID: the interpreter, or an exception
LookUpFailed == Exc("RuntimeError", "unrecognized interpreter ID")

\* (not the code) a _xidata_release that looks up the owner whatever the
\* struct holds
xidata_release_always_resolves(w, h, rawfree, cur) ==
    LET w0 == [w EXCEPT !.xid[h] = Touch(@)]
        x == w0.xid[h]
    IN IF x.interpid \notin alive
       THEN [w |-> [w0 EXCEPT !.err = LookUpFailed,
                              !.xid[h] = IF rawfree THEN PyMem_RawFree(@) ELSE @],
             res |-> -1]
       ELSE [w |-> IF rawfree
                   THEN _Py_CallInInterpreterAndRawFree(w0, x.interpid, h, cur)
                   ELSE _Py_CallInInterpreter(w0, x.interpid, h, cur),
             res |-> 0]

\* [w, res]: the world after the call and the value returned
_xidata_release(w, h, rawfree, cur) ==
    LET w0 == [w EXCEPT !.xid[h] = Touch(@)]
        x == w0.xid[h]
    IN IF (IsNull(x.data) \/ ~x.free) /\ x.obj = NoObj
       THEN [w |-> [w0 EXCEPT !.xid[h] = IF rawfree THEN PyMem_RawFree(@)
                                         ELSE [@ EXCEPT !.data = NULL]],
             res |-> 0]
       ELSE IF x.interpid \notin alive
            THEN [w |-> [w0 EXCEPT !.err = LookUpFailed,
                                   !.xid[h] = IF rawfree THEN PyMem_RawFree(@) ELSE @],
                  res |-> -1]
            ELSE [w |-> IF rawfree
                        THEN _Py_CallInInterpreterAndRawFree(w0, x.interpid, h, cur)
                        ELSE _Py_CallInInterpreter(w0, x.interpid, h, cur),
                  res |-> 0]

_PyCrossInterpreterData_Release(w, h, cur) == _xidata_release(w, h, FALSE, cur)

_PyCrossInterpreterData_ReleaseAndRawFree(w, h, cur) == _xidata_release(w, h, TRUE, cur)

\* (not the code) a _release_xid_data that frees the storage when rawfree
\* is set, and only then
release_xid_data_as_asked(w, h, rawfree, cur) ==
    With([r \in {IF rawfree
                 THEN _PyCrossInterpreterData_ReleaseAndRawFree(
                          [w EXCEPT !.err = NoExc], h, cur)
                 ELSE _PyCrossInterpreterData_Release([w EXCEPT !.err = NoExc], h, cur)} |->
        LET exc == w.err
            w1 == IF r.res < 0
                  THEN [r.w EXCEPT !.xid[h] = _PyCrossInterpreterData_Clear(Touch(@), cur)]
                  ELSE r.w
        IN [w |-> [w1 EXCEPT !.err = exc], res |-> r.res]])

\* The exception pending at the call is put back at the end.
_release_xid_data(w, h, rawfree, cur) ==
    With([r \in {IF rawfree
                 THEN _PyCrossInterpreterData_Release([w EXCEPT !.err = NoExc], h, cur)
                 ELSE _PyCrossInterpreterData_ReleaseAndRawFree(
                          [w EXCEPT !.err = NoExc], h, cur)} |->
        LET exc == w.err
            w1 == IF r.res < 0
                  THEN [r.w EXCEPT !.xid[h] = _PyCrossInterpreterData_Clear(Touch(@), cur)]
                  ELSE r.w
        IN [w |-> [w1 EXCEPT !.err = exc], res |-> r.res]])

\* a produce that keeps the interpreter id the getdata function stored
FillInTheBlanks_keeps_id(x, cur) == x

\* "Fill in the blanks": data->interpid = interp->id
FillInTheBlanks(x, cur) == [x EXCEPT !.interpid = cur]

NotShareable(obj) ==
    Exc("NotShareableError", obj.t \o " does not support cross-interpreter data")

\* [w, res]; the struct at h is reset first, whatever it held
_PyObject_GetCrossInterpreterData(w, obj, h, cur, oom, cp) ==
    LET x0 == _xidata_init(w.xid[h])
        getdata == _lookup_getdata_from_registry(Registries(cur), obj).func
    IN IF getdata = "NULL"
       THEN [w |-> [w EXCEPT !.xid[h] = x0, !.err = NotShareable(obj)], res |-> -1]
       ELSE With([g \in {CallGetdata(getdata, x0, obj, cur, oom, cp)} |->
               IF g.res # 0
               THEN [w |-> [w EXCEPT !.xid[h] = g.x, !.err = g.err], res |-> -1]
               ELSE LET x1 == FillInTheBlanks(g.x, cur)
                        w1 == [w EXCEPT !.xid[h] = x1]
                        chk == _check_xidata(x1)
                    IN IF chk.res # 0
                       THEN [w |-> _PyCrossInterpreterData_Release(
                                       [w1 EXCEPT !.err = chk.err], h, cur).w,
                             res |-> -1]
                       ELSE [w |-> w1, res |-> 0]])

(***************************************************************************)
(* Shared namespaces.  An item is its name ("" for NULL) and the address   *)
(* of its struct (0 for NULL).                                             *)
(***************************************************************************)
MaxNames == 2

NameSet == {"a", "b"}
NameLists == UNION {[1..n -> NameSet] : n \in 0..MaxNames}

Item(name, data) == [name |-> name, data |-> data]
\* lost: the names a failed _sharedns_init had copied and did not free
NsBlank == [st |-> "none", len |-> 0, items |-> <<>>, lost |-> 0]

\* the structs no one has allocated yet
FreeXids(w) == {h \in XidIds : w.xid[h].mem = "none"}
Lowest(S) == CHOOSE h \in S : \A g \in S : h <= g

\* A malloc failure injected into a call: "none", or the allocation of the
\* struct ("item") or of its payload ("data") of item number at.
Inject(kind, at) == [kind |-> kind, at |-> at]
NoInject == Inject("none", 0)

\* the types whose getdata allocates a block
Allocating == {"bytes", "str", "float"}

\* the failures that can happen while n is filled from bind
Injections(n, bind) ==
    {NoInject}
    \cup {Inject("item", i) : i \in {j \in 1..n.len : bind[n.items[j].name] # NoObj}}
    \cup {Inject("data", i) : i \in {j \in 1..n.len : bind[n.items[j].name].t \in Allocating}}

_sharednsitem_is_initialized(item) == item.name # ""

\* [w, item, res]
_sharednsitem_set_value(w, item, value, cur, inj, cp) ==
    IF inj = "item"
    THEN [w |-> [w EXCEPT !.err = PyErr_NoMemory], item |-> item, res |-> -1]
    ELSE LET h == Lowest(FreeXids(w))
             w1 == [w EXCEPT !.xid[h] = [XidBlank EXCEPT !.mem = "heap", !.born = cur,
                                                   !.src = value]]
         IN With([r \in {_PyObject_GetCrossInterpreterData(
                              w1, value, h, cur, inj = "data", cp)} |->
                IF r.res # 0
                THEN [w |-> [r.w EXCEPT !.xid[h] = PyMem_RawFree(@)],
                      item |-> [item EXCEPT !.data = 0], res |-> -1]
                ELSE [w |-> r.w, item |-> [item EXCEPT !.data = h], res |-> 0]])

\* a _sharednsitem_clear_value that forgets the struct without releasing it
clear_value_no_release(w, item, cur) == [w |-> w, item |-> [item EXCEPT !.data = 0]]

\* [w, item]
_sharednsitem_clear_value(w, item, cur) ==
    IF item.data # 0
    THEN [w |-> _release_xid_data(w, item.data, TRUE, cur).w,
          item |-> [item EXCEPT !.data = 0]]
    ELSE [w |-> w, item |-> item]

_sharednsitem_clear(w, item, cur) ==
    _sharednsitem_clear_value(w, [item EXCEPT !.name = ""], cur)

\* bind: the source dict, a function from names to objects, NoObj when absent
_sharednsitem_copy_from_ns(w, item, bind, cur, inj, cp) ==
    LET value == bind[item.name]
    IN IF value = NoObj THEN [w |-> w, item |-> item, res |-> 0]
       ELSE _sharednsitem_set_value(w, item, value, cur, inj, cp)

_sharedns_is_initialized(n) == n.len # 0

\* _sharednsitem_clear_value on the items lo..hi: [w, ns]
RECURSIVE ClearValues(_, _, _, _, _)
ClearValues(w, n, lo, hi, cur) ==
    IF lo > hi THEN [w |-> w, ns |-> n]
    ELSE With([c \in {_sharednsitem_clear_value(w, n.items[lo], cur)} |->
             ClearValues(c.w, [n EXCEPT !.items[lo] = c.item], lo + 1, hi, cur)])

\* _sharednsitem_clear on the items lo..hi: [w, ns]
RECURSIVE ClearItems(_, _, _, _, _)
ClearItems(w, n, lo, hi, cur) ==
    IF lo > hi THEN [w |-> w, ns |-> n]
    ELSE With([c \in {_sharednsitem_clear(w, n.items[lo], cur)} |->
             ClearItems(c.w, [n EXCEPT !.items[lo] = c.item], lo + 1, hi, cur)])

_sharedns_clear(w, n, cur) ==
    IF ~_sharedns_is_initialized(n) THEN [w |-> w, ns |-> n]
    ELSE With([c \in {ClearItems(w, n, 1, n.len, cur)} |->
             [w |-> c.w, ns |-> [c.ns EXCEPT !.items = <<>>, !.len = 0]]])

_sharedns_free(w, n, cur) ==
    With([c \in {_sharedns_clear(w, n, cur)} |->
        [w |-> c.w, ns |-> [c.ns EXCEPT !.st = "freed"]]])

\* _sharednsitem_init on the names from i on, in the array items that
\* PyMem_RawCalloc returned.  [items, at]: at is the name whose copy failed
\* (0: none).
RECURSIVE InitItems(_, _, _, _)
InitItems(items, names, i, failat) ==
    IF i > Len(names) THEN [items |-> items, at |-> 0]
    ELSE IF failat = i THEN [items |-> items, at |-> i]
    ELSE InitItems([items EXCEPT ![i] = Item(names[i], 0)], names, i + 1, failat)

\* (not the code) an error path that leaves the name before the failing one
free_names_but_last(items, at) ==
    [k \in DOMAIN items |-> IF k < at - 1 THEN Item("", 0) ELSE items[k]]

\* the error: label of _sharedns_init: _sharednsitem_clear on the items
\* before the failing one
FreeNames(items, at) ==
    [k \in DOMAIN items |-> IF k < at THEN Item("", 0) ELSE items[k]]

\* names: the list of names; failat: the name whose copy fails (0: none).
\* [ns, res, err, lost]: lost is the number of names still allocated in the
\* array that a failed call freed
_sharedns_init(n, names, failat) ==
    IF Len(names) = 0
    THEN [ns |-> n, res |-> -1, err |-> Exc("ValueError", "empty namespaces not allowed"),
          lost |-> 0]
    ELSE With([r \in {InitItems([i \in 1..Len(names) |-> Item("", 0)], names, 1,
                                failat)} |->
           IF r.at # 0
           THEN [ns |-> n, res |-> -1, err |-> PyErr_NoMemory,
                 lost |-> Cardinality({k \in DOMAIN r.items :
                                         FreeNames(r.items, r.at)[k].name # ""})]
           ELSE [ns |-> [n EXCEPT !.len = Len(names), !.items = r.items],
                 res |-> 0, err |-> NoExc, lost |-> 0]])

\* The names are the items of a list or the keys of a dict (kind), for which
\* PySequence_Size fails with a TypeError.  [res, err]
PySequence_Size(names, kind) ==
    IF kind = "dict"
    THEN [res |-> -1, err |-> Exc("TypeError", "dict is not a sequence")]
    ELSE [res |-> Len(names), err |-> NoExc]

\* [ns, err]: ns.st = "none" stands for a NULL result
_PyXI_NamespaceFromNames(names, kind, failat) ==
    LET r == _sharedns_init([NsBlank EXCEPT !.st = "live"], names, failat)
        size == PySequence_Size(names, kind)
    IN IF r.res < 0
       THEN [ns |-> [NsBlank EXCEPT !.lost = r.lost],
             err |-> IF size.res = 0 THEN NoExc
                     ELSE IF size.res < 0 THEN size.err
                     ELSE r.err]
       ELSE [ns |-> r.ns, err |-> NoExc]

\* The items from i on are filled; on a failure the values of the items
\* before the failing one are cleared.  [w, ns, res, at, made]: at is the
\* failing item (0: none), made the structs filled by this call.
RECURSIVE FillFrom(_, _, _, _, _, _, _, _)
FillFrom(w, n, i, bind, cur, inj, cp, made) ==
    IF i > n.len THEN [w |-> w, ns |-> n, res |-> 0, at |-> 0, made |-> made]
    ELSE With([r \in {_sharednsitem_copy_from_ns(
                           w, n.items[i], bind, cur,
                           IF inj.at = i THEN inj.kind ELSE "none", cp)} |->
             LET n1 == [n EXCEPT !.items[i] = r.item]
             IN IF r.res < 0
                THEN With([c \in {ClearValues(r.w, n1, 1, i - 1, cur)} |->
                         [w |-> c.w, ns |-> c.ns, res |-> -1, at |-> i, made |-> made]])
                ELSE FillFrom(r.w, n1, i + 1, bind, cur, inj, cp,
                              IF r.item.data # 0 THEN made \cup {r.item.data}
                              ELSE made)])

_PyXI_FillNamespaceFromDict(w, n, bind, cur, inj, cp) ==
    FillFrom(w, n, 1, bind, cur, inj, cp, {})

HAS_COMPLETE_DATA == 1
HAS_PARTIAL_DATA == 2

\* [res, interpid]: interpid is *p_interpid, which is stored when res is 1
_sharednsitem_has_value(w, item, interpid) ==
    IF item.data = 0 THEN [res |-> 0, interpid |-> interpid]
    ELSE [res |-> 1, interpid |-> w.xid[item.data].interpid]

\* [res, interpid]: *p_interpid is interpid at the call.  The first and the
\* last item are looked at; without assertions their owners are not compared.
_sharedns_has_xidata(w, n, interpid) ==
    LET item0 == n.items[1]
        itemN == n.items[n.len]
        v0 == _sharednsitem_has_value(w, item0, -1)
        vN == _sharednsitem_has_value(w, itemN, -1)
    IN IF ~_sharednsitem_is_initialized(item0) THEN [res |-> 0, interpid |-> interpid]
       ELSE IF v0.res = 0 THEN [res |-> 0, interpid |-> interpid]
       ELSE IF n.len > 1 /\ ~_sharednsitem_is_initialized(itemN)
            THEN [res |-> HAS_PARTIAL_DATA, interpid |-> interpid]
       ELSE IF n.len > 1 /\ vN.res = 0
            THEN [res |-> HAS_PARTIAL_DATA, interpid |-> interpid]
       ELSE [res |-> HAS_COMPLETE_DATA, interpid |-> v0.interpid]

\* [w, ns, has]: has is what _sharedns_has_xidata gave
_PyXI_FreeNamespace(w, n, cur) ==
    IF ~_sharedns_is_initialized(n)
    THEN [w |-> w, ns |-> n, has |-> [res |-> 0, interpid |-> -1]]
    ELSE With([has \in {_sharedns_has_xidata(w, n, -1)} |->
           With([f \in {_sharedns_free(w, n, cur)} |->
               [w |-> f.w, ns |-> f.ns, has |-> has]])])

(***************************************************************************)
(* Exception snapshots.  A C string is <<>> (NULL) or <<text>>.            *)
(***************************************************************************)
NullStr == <<>>
Str(text) == <<text>>

_PyXI_ERR_NO_ERROR == "NO_ERROR"
_PyXI_ERR_UNCAUGHT_EXCEPTION == "UNCAUGHT_EXCEPTION"
_PyXI_ERR_OTHER == "OTHER"
_PyXI_ERR_NO_MEMORY == "NO_MEMORY"
_PyXI_ERR_ALREADY_RUNNING == "ALREADY_RUNNING"
_PyXI_ERR_MAIN_NS_FAILURE == "MAIN_NS_FAILURE"
_PyXI_ERR_APPLY_NS_FAILURE == "APPLY_NS_FAILURE"
_PyXI_ERR_NOT_SHAREABLE == "NOT_SHAREABLE"

\* _Py_excinfo
ExcInfo(type, msg) == [type |-> type, msg |-> msg]

\* _PyXI_exception_info; interp is -1 for NULL
XIExcInfo(interp, code, uncaught) == [interp |-> interp, code |-> code, uncaught |-> uncaught]

\* str(exc), as BaseException renders its arguments
PyObject_Str(exc) == IF exc.args = <<>> THEN "" ELSE exc.args[1]

\* What can go wrong while an exception is copied: nothing, or making the
\* str of the name or of the message ("format"), encoding it as UTF-8
\* ("encode"), or allocating the copy ("copy").
CaptureFaults ==
    {"none", "name_format", "name_encode", "name_copy",
     "msg_format", "msg_encode", "msg_copy"}

\* [res, str, err]: str is *p_typename, err the exception the failure set
_exc_type_name_as_utf8(exc, fault) ==
    CASE fault = "name_format" ->
           [res |-> -1, str |-> "unable to format exception type name",
            err |-> PyErr_NoMemory]
      [] fault = "name_encode" ->
           [res |-> -1, str |-> "unable to encode exception type name",
            err |-> Exc("UnicodeEncodeError", "surrogates not allowed")]
      [] fault = "name_copy" ->
           [res |-> -1, str |-> "out of memory copying exception type name",
            err |-> NoExc]
      [] OTHER -> [res |-> 0, str |-> exc.t, err |-> NoExc]

\* [res, str, err]
_exc_msg_as_utf8(exc, fault) ==
    CASE fault = "msg_format" ->
           [res |-> -1, str |-> "unable to format exception message",
            err |-> Exc("TypeError", "__str__ returned non-string")]
      [] fault = "msg_encode" ->
           [res |-> -1, str |-> "unable to encode exception message",
            err |-> PyErr_NoMemory]
      [] fault = "msg_copy" ->
           [res |-> -1, str |-> "out of memory copying exception message",
            err |-> NoExc]
      [] OTHER -> [res |-> 0, str |-> PyObject_Str(exc), err |-> NoExc]

_Py_excinfo_Clear(info) == ExcInfo(NullStr, NullStr)

\* [info, failure, err]: failure is NullStr when the copy was made
_Py_excinfo_InitFromException(info, exc, fault) ==
    LET tn == _exc_type_name_as_utf8(exc, fault)
        ms == _exc_msg_as_utf8(exc, fault)
    IN IF tn.res < 0
       THEN [info |-> info, failure |-> Str(tn.str), err |-> tn.err]
       ELSE IF ms.res < 0
            THEN [info |-> info, failure |-> Str(ms.str), err |-> ms.err]
            ELSE [info |-> ExcInfo(Str(tn.str), Str(ms.str)), failure |-> NullStr,
                  err |-> NoExc]

\* an _Py_excinfo_Apply that raises the message alone when there is one
excinfo_Apply_msg_only(info, exctype) ==
    IF info.msg # NullStr THEN Exc(exctype, info.msg[1])
    ELSE IF info.type # NullStr THEN Exc(exctype, info.type[1])
    ELSE ExcNone(exctype)

\* the exception it sets
_Py_excinfo_Apply(info, exctype) ==
    IF info.type # NullStr
    THEN IF info.msg # NullStr
         THEN Exc(exctype, info.type[1] \o ": " \o info.msg[1])
         ELSE Exc(exctype, info.type[1])
    ELSE IF info.msg # NullStr
         THEN Exc(exctype, info.msg[1])
         ELSE ExcNone(exctype)

\* the exception type of _get_not_shareable_error_type
NotShareableError == "NotShareableError"

\* the exception it sets
_set_xid_lookup_failure(interp, obj, msg) ==
    IF msg # NullStr THEN Exc(NotShareableError, msg[1])
    ELSE IF obj = NoObj
         THEN Exc(NotShareableError, "object does not support cross-interpreter data")
         ELSE Exc(NotShareableError, obj.t \o " does not support cross-interpreter data")

\* the exception _PyInterpreterState_FailIfRunningMain sets
AlreadyRunning == Exc("RuntimeError", "interpreter already running")

\* (not the code) an exception that is set whatever the interpreter does
FailIfRunningMain_always(flag, interp) == [res |-> -1, err |-> AlreadyRunning]

\* flag: the running-main owner of each interpreter (0: none).  [res, err]
_PyInterpreterState_FailIfRunningMain(flag, interp) ==
    IF flag[interp] # 0 THEN [res |-> -1, err |-> AlreadyRunning]
    ELSE [res |-> 0, err |-> NoExc]

\* [res, err]
_PyXI_ApplyErrorCode(code, interp, flag) ==
    CASE code \in {_PyXI_ERR_NO_ERROR, _PyXI_ERR_UNCAUGHT_EXCEPTION} ->
           [res |-> 0, err |-> NoExc]
      [] code = _PyXI_ERR_OTHER -> [res |-> -1, err |-> ExcNone("RuntimeError")]
      [] code = _PyXI_ERR_NO_MEMORY -> [res |-> -1, err |-> PyErr_NoMemory]
      [] code = _PyXI_ERR_ALREADY_RUNNING ->
           [res |-> -1, err |-> _PyInterpreterState_FailIfRunningMain(flag, interp).err]
      [] code = _PyXI_ERR_MAIN_NS_FAILURE ->
           [res |-> -1, err |-> Exc("RuntimeError", "failed to get __main__ namespace")]
      [] code = _PyXI_ERR_APPLY_NS_FAILURE ->
           [res |-> -1, err |-> Exc("RuntimeError", "failed to apply namespace to __main__")]
      [] code = _PyXI_ERR_NOT_SHAREABLE ->
           [res |-> -1, err |-> _set_xid_lookup_failure(interp, NoObj, NullStr)]
      [] OTHER -> [res |-> -1, err |-> Exc("RuntimeError", "unsupported error code")]

\* err: the exception pending at the call; cur: the current interpreter.
\* [info, failure, err]
_PyXI_InitExceptionInfo(info, excobj, code, err, cur, fault) ==
    LET info0 == IF info.interp = -1 THEN [info EXCEPT !.interp = cur] ELSE info
    IN IF code = _PyXI_ERR_UNCAUGHT_EXCEPTION
       THEN LET r == _Py_excinfo_InitFromException(info0.uncaught, excobj, fault)
                e == IF r.err # NoExc THEN r.err ELSE err
            IN IF r.failure # NullStr
               THEN [info |-> [info0 EXCEPT !.code = IF e.t = "MemoryError"
                                                     THEN _PyXI_ERR_NO_MEMORY
                                                     ELSE _PyXI_ERR_OTHER],
                     failure |-> r.failure, err |-> NoExc]
               ELSE [info |-> [info0 EXCEPT !.code = code, !.uncaught = r.info],
                     failure |-> NullStr, err |-> e]
       ELSE [info |-> [info0 EXCEPT !.code = code,
                                    !.uncaught = _Py_excinfo_Clear(@)],
             failure |-> NullStr, err |-> err]

\* PyException_SetContext on the NULL that PyErr_GetRaisedException returns
\* when no exception is set: the process ends
NullDereference == ExcNone("SIGSEGV")

\* exctype: "NULL" for the default.  The exception it sets.
_PyXI_ApplyExceptionInfo(info, exctype, flag) ==
    LET et == IF exctype = "NULL" THEN "RuntimeError" ELSE exctype
    IN IF info.code = _PyXI_ERR_UNCAUGHT_EXCEPTION
       THEN _Py_excinfo_Apply(info.uncaught, et)
       ELSE IF info.code = _PyXI_ERR_NOT_SHAREABLE
            THEN _set_xid_lookup_failure(info.interp, NoObj, info.uncaught.msg)
            ELSE LET exc == _PyXI_ApplyErrorCode(info.code, info.interp, flag).err
                 IN IF info.uncaught.type # NullStr \/ info.uncaught.msg # NullStr
                    THEN IF exc = NoExc THEN NullDereference
                         ELSE [exc EXCEPT !.ctx = <<_Py_excinfo_Apply(info.uncaught, et)>>]
                    ELSE exc

(***************************************************************************)
(* Sessions.  A thread state (PyThreadState) is its interpreter and its    *)
(* pending exception; a thread has one current thread state.  A session    *)
(* function runs in the world S = [xid, pend, err, ts, cur, main, flag,    *)
(* sess]: the handle world of the calling thread, the thread states, the   *)
(* calling thread's current one, each interpreter's __main__ bindings and  *)
(* running-main owner, and the sessions.                                   *)
(***************************************************************************)
MaxTstates == 4     \* addresses of thread states
MaxSessions == 2    \* _PyXI_session structs

Threads == {1, 2}
TsIds == 1..MaxTstates
Sessions == 1..MaxSessions

TstateBlank == [st |-> "free", interp |-> -1, exc |-> NoExc, whence |-> "NONE"]

NoExcInfo == XIExcInfo(-1, _PyXI_ERR_NO_ERROR, ExcInfo(NullStr, NullStr))

\* An idle session.  init_tstate, prev_tstate: 0 for NULL; main_ns: the
\* interpreter whose __main__ dict it refers to, -1 for NULL; exc: <<>> for
\* NULL, or what it points at (_exc, which nothing reads otherwise);
\* exc_override: "NULL" or the code it points at.
\* by, before, created, raised: the thread that uses it, the thread state
\* that was current when it was entered, the one made for it (0: none) and
\* the exception that was pending when its capture started.
SessionBlank ==
    [own_init_tstate |-> FALSE, init_tstate |-> 0, prev_tstate |-> 0,
     running |-> FALSE, main_ns |-> -1,
     exc_override |-> "NULL", exc |-> <<>>,
     by |-> 0, before |-> 0, created |-> 0, raised |-> NoExc]

EmptyBindings == [nm \in NameSet |-> NoObj]

PyThreadState_Get(S) == S.cur
PyInterpreterState_Get(S) == S.ts[S.cur].interp

\* The calling thread's pending exception goes with its thread state.
PyThreadState_Swap(S, tstate) ==
    [S EXCEPT !.ts[S.cur].exc = S.err, !.cur = tstate, !.err = S.ts[tstate].exc]

FreeTstates(S) == {k \in TsIds : S.ts[k].st = "free"}

\* [S, tstate]
PyThreadState_New(S, interp) ==
    LET k == Lowest(FreeTstates(S))
    IN [S |-> [S EXCEPT !.ts[k] = [TstateBlank EXCEPT !.st = "live", !.interp = interp]],
        tstate |-> k]

\* PyThreadState_Clear and PyThreadState_Delete
PyThreadState_Delete(S, tstate) == [S EXCEPT !.ts[tstate] = TstateBlank]

\* The interpreter's running-main owner (interp->threads.main) is tested
\* and set in one step.  [S, res]
_PyInterpreterState_SetRunningMain(S, interp) ==
    IF S.flag[interp] # 0
    THEN [S |-> [S EXCEPT !.err = AlreadyRunning], res |-> -1]
    ELSE [S |-> [S EXCEPT !.flag[interp] = S.cur], res |-> 0]

_PyInterpreterState_SetNotRunningMain(S, interp) == [S EXCEPT !.flag[interp] = 0]

\* an _enter_session that takes the new thread state for the previous one
enter_session_forgets_prev(S, s, interp) ==
    IF interp # S.ts[S.cur].interp
    THEN LET n == PyThreadState_New(S, interp)
             S1 == PyThreadState_Swap(
                       [n.S EXCEPT !.ts[n.tstate].whence = "EXEC"], n.tstate)
         IN [S1 EXCEPT !.sess[s].own_init_tstate = TRUE,
                       !.sess[s].init_tstate = n.tstate,
                       !.sess[s].prev_tstate = n.tstate]
    ELSE [S EXCEPT !.sess[s].init_tstate = S.cur, !.sess[s].prev_tstate = S.cur]

_enter_session(S, s, interp) ==
    LET tstate == PyThreadState_Get(S)
        prev == tstate
    IN IF interp # S.ts[tstate].interp
       THEN LET n == PyThreadState_New(S, interp)
                S1 == PyThreadState_Swap(
                          [n.S EXCEPT !.ts[n.tstate].whence = "EXEC"], n.tstate)
            IN [S1 EXCEPT !.sess[s].own_init_tstate = TRUE,
                          !.sess[s].init_tstate = n.tstate,
                          !.sess[s].prev_tstate = prev]
       ELSE [S EXCEPT !.sess[s].init_tstate = tstate, !.sess[s].prev_tstate = prev]

\* the switch back of _exit_session
SwitchBack(S, s) ==
    LET tstate == S.sess[s].init_tstate
        S1 == IF S.sess[s].prev_tstate # S.sess[s].init_tstate
              THEN PyThreadState_Delete(
                       PyThreadState_Swap([S EXCEPT !.sess[s].own_init_tstate = FALSE],
                                          S.sess[s].prev_tstate),
                       tstate)
              ELSE S
    IN [S1 EXCEPT !.sess[s].prev_tstate = 0, !.sess[s].init_tstate = 0]

\* an _exit_session that marks the interpreter not running whoever owns it
exit_session_always_clears(S, s) ==
    LET tstate == S.sess[s].init_tstate
        S1 == [S EXCEPT !.sess[s].main_ns = -1]
        S2 == [_PyInterpreterState_SetNotRunningMain(S1, S1.ts[tstate].interp)
                 EXCEPT !.sess[s].running = FALSE]
    IN SwitchBack(S2, s)

\* an _exit_session that leaves the interpreter marked running
exit_session_keeps_flag(S, s) ==
    SwitchBack([S EXCEPT !.sess[s].main_ns = -1, !.sess[s].running = FALSE], s)

_exit_session(S, s) ==
    LET tstate == S.sess[s].init_tstate
        S1 == [S EXCEPT !.sess[s].main_ns = -1]
        S2 == IF S1.sess[s].running
              THEN [_PyInterpreterState_SetNotRunningMain(S1, S1.ts[tstate].interp)
                      EXCEPT !.sess[s].running = FALSE]
              ELSE S1
    IN SwitchBack(S2, s)

_session_is_active(S, s) == S.sess[s].init_tstate # 0

\* (not the code) a capture that takes no snapshot when an override is set
capture_without_snapshot(S, s, fault) ==
    IF S.err = NoExc THEN S
    ELSE LET override == S.sess[s].exc_override
             errcode == IF override # "NULL" THEN override
                        ELSE _PyXI_ERR_UNCAUGHT_EXCEPTION
             excval == IF override # "NULL" THEN NoExc ELSE S.err
             exc0 == XIExcInfo(S.ts[S.sess[s].init_tstate].interp, _PyXI_ERR_NO_ERROR,
                               ExcInfo(NullStr, NullStr))
             cur == PyInterpreterState_Get(S)
         IN With([r \in {IF excval = NoExc
                         THEN _PyXI_InitExceptionInfo(exc0, NoExc, errcode, NoExc, cur,
                                                      "none")
                         ELSE _PyXI_InitExceptionInfo(exc0, excval,
                                                      _PyXI_ERR_UNCAUGHT_EXCEPTION,
                                                      NoExc, cur, fault)} |->
                [S EXCEPT !.err = r.err,
                          !.sess[s].exc_override = "NULL",
                          !.sess[s].exc = IF r.failure # NullStr THEN <<>>
                                          ELSE <<r.info>>]])

\* (not the code) a capture that leaves the override as it is
capture_keeps_override(S, s, fault) ==
    IF S.err = NoExc THEN S
    ELSE LET override == S.sess[s].exc_override
             errcode == IF override # "NULL" THEN override
                        ELSE _PyXI_ERR_UNCAUGHT_EXCEPTION
             \* NoExc stands for excval == NULL
             excval == IF errcode = _PyXI_ERR_ALREADY_RUNNING THEN NoExc ELSE S.err
             exc0 == XIExcInfo(S.ts[S.sess[s].init_tstate].interp, _PyXI_ERR_NO_ERROR,
                               ExcInfo(NullStr, NullStr))
             cur == PyInterpreterState_Get(S)
         IN With([r \in {IF excval = NoExc
                         THEN _PyXI_InitExceptionInfo(exc0, NoExc, errcode, NoExc, cur,
                                                      "none")
                         ELSE _PyXI_InitExceptionInfo(exc0, excval,
                                                      _PyXI_ERR_UNCAUGHT_EXCEPTION,
                                                      NoExc, cur, fault)} |->
                LET info == IF excval # NoExc /\ r.failure = NullStr
                               /\ override # "NULL"
                            THEN [r.info EXCEPT !.code = errcode]
                            ELSE r.info
                IN [S EXCEPT !.err = r.err,
                             !.sess[s].exc = IF r.failure # NullStr THEN <<>>
                                             ELSE <<info>>]])

_capture_current_exception(S, s, fault) ==
    IF S.err = NoExc THEN S
    ELSE LET override == S.sess[s].exc_override
             errcode == IF override # "NULL" THEN override
                        ELSE _PyXI_ERR_UNCAUGHT_EXCEPTION
             \* NoExc stands for excval == NULL
             excval == IF errcode = _PyXI_ERR_ALREADY_RUNNING THEN NoExc ELSE S.err
             exc0 == XIExcInfo(S.ts[S.sess[s].init_tstate].interp, _PyXI_ERR_NO_ERROR,
                               ExcInfo(NullStr, NullStr))
             cur == PyInterpreterState_Get(S)
         IN With([r \in {IF excval = NoExc
                         THEN _PyXI_InitExceptionInfo(exc0, NoExc, errcode, NoExc, cur,
                                                      "none")
                         ELSE _PyXI_InitExceptionInfo(exc0, excval,
                                                      _PyXI_ERR_UNCAUGHT_EXCEPTION,
                                                      NoExc, cur, fault)} |->
                LET info == IF excval # NoExc /\ r.failure = NullStr
                               /\ override # "NULL"
                            THEN [r.info EXCEPT !.code = errcode]
                            ELSE r.info
                IN [S EXCEPT !.err = r.err,
                             !.sess[s].exc_override = "NULL",
                             !.sess[s].exc = IF r.failure # NullStr THEN <<>>
                                             ELSE <<info>>]])

_PyXI_ApplyCapturedException(S, s, excwrapper) ==
    [S EXCEPT !.err = _PyXI_ApplyExceptionInfo(S.sess[s].exc[1], excwrapper, S.flag),
              !.sess[s].exc = <<>>]

_PyXI_HasCapturedException(S, s) == S.sess[s].exc # <<>>

\* A dict given to _PyXI_Enter: t is "NULL", "dict" or the name of another
\* type; d is the bindings of a dict.
NsObj(t, d) == [t |-> t, d |-> d]

\* the keys of a dict, in its order
NameOrder == <<"a", "b">>
PresentIn(d, nm) == d[nm] # NoObj
Keys(d) == SelectSeq(NameOrder, LAMBDA nm : PresentIn(d, nm))

\* a dict as an object, the dict without keys, and the default of an apply
DictObj(d) == [t |-> "dict", v |-> <<>>, d |-> d]
NoBindings == [nm \in {"a", "b"} |-> NoObj]
Dflt == Obj("object", <<>>)

\* A failure injected into _PyXI_ApplyNamespace: "none", or making the name
\* ("name"), the value ("value") or the binding ("setitem") of item number at.
NoApplyFault == Inject("none", 0)

\* (not the code) an item without data binds nothing
sharednsitem_apply_needs_data(S, item, bind, dflt, fail) ==
    IF item.data = 0 THEN [bind |-> bind, res |-> 0, err |-> NoExc]
    ELSE [bind |-> [bind EXCEPT ![item.name] =
                       _PyCrossInterpreterData_NewObject(S.xid[item.data]).obj],
          res |-> IF fail = "none" THEN 0 ELSE -1,
          err |-> IF fail = "none" THEN NoExc ELSE PyErr_NoMemory]

\* bind: the destination dict; dflt: NoObj for NULL.  [bind, res, err]
_sharednsitem_apply(S, item, bind, dflt, fail) ==
    IF fail = "name" THEN [bind |-> bind, res |-> -1, err |-> PyErr_NoMemory]
    ELSE IF item.data # 0 /\ fail = "value"
         THEN [bind |-> bind, res |-> -1, err |-> PyErr_NoMemory]
         ELSE LET value == IF item.data # 0
                           THEN _PyCrossInterpreterData_NewObject(S.xid[item.data]).obj
                           ELSE dflt
              IN IF fail = "setitem"
                 THEN [bind |-> bind, res |-> -1, err |-> PyErr_NoMemory]
                 ELSE [bind |-> [bind EXCEPT ![item.name] = value], res |-> 0,
                       err |-> NoExc]

RECURSIVE ApplyFrom(_, _, _, _, _, _)
ApplyFrom(S, n, i, bind, dflt, af) ==
    IF i > n.len THEN [bind |-> bind, res |-> 0, err |-> NoExc]
    ELSE With([r \in {_sharednsitem_apply(S, n.items[i], bind, dflt,
                                             IF af.at = i THEN af.kind ELSE "none")} |->
             IF r.res # 0 THEN [bind |-> r.bind, res |-> -1, err |-> r.err]
             ELSE ApplyFrom(S, n, i + 1, r.bind, dflt, af)])

\* (not the code) an apply that goes on with the items after a failing one
RECURSIVE ApplyAll(_, _, _, _, _, _, _)
ApplyAll(S, n, i, bind, dflt, af, err) ==
    IF i > n.len THEN [bind |-> bind, res |-> IF err = NoExc THEN 0 ELSE -1, err |-> err]
    ELSE With([r \in {_sharednsitem_apply(S, n.items[i], bind, dflt,
                                             IF af.at = i THEN af.kind ELSE "none")} |->
             ApplyAll(S, n, i + 1, r.bind, dflt, af, IF r.res # 0 THEN r.err ELSE err)])

ApplyNamespace_goes_on(S, n, bind, dflt, af) == ApplyAll(S, n, 1, bind, dflt, af, NoExc)

\* [bind, res, err]
_PyXI_ApplyNamespace(S, n, bind, dflt, af) == ApplyFrom(S, n, 1, bind, dflt, af)

\* [w, ns]: ns.st = "none" stands for a NULL result
_PyXI_NamespaceFromDict(w, nsobj, cur, inj, cp, failat) ==
    IF nsobj.t \in {"NULL", "NoneType"} THEN [w |-> w, ns |-> NsBlank]
    ELSE IF nsobj.t # "dict"
         THEN [w |-> [w EXCEPT !.err = Exc("TypeError", "expected a dict")],
               ns |-> NsBlank]
         ELSE With([r \in {_sharedns_init([NsBlank EXCEPT !.st = "live"],
                                             Keys(nsobj.d), failat)} |->
                  IF r.res < 0
                  THEN IF Len(Keys(nsobj.d)) = 0
                       THEN [w |-> [w EXCEPT !.err = NoExc], ns |-> NsBlank]
                       ELSE [w |-> _sharedns_free([w EXCEPT !.err = r.err], r.ns, cur).w,
                             ns |-> NsBlank]
                  ELSE With([f \in {_PyXI_FillNamespaceFromDict(
                                        w, r.ns, nsobj.d, cur, inj, cp)} |->
                           IF f.res < 0
                           THEN [w |-> _sharedns_free(f.w, f.ns, cur).w, ns |-> NsBlank]
                           ELSE [w |-> f.w, ns |-> f.ns]])])

\* What is injected into a call of _PyXI_Enter: inj, cp, failat for the
\* conversion of nsupdates; main: "none", or the failure to get the
\* __main__ module ("module") or its dict ("dict"); apply: for
\* _PyXI_ApplyNamespace; capture: for the capture of the exception.
EnterFaults(inj, cp, failat, main, apply, capture) ==
    [inj |-> inj, cp |-> cp, failat |-> failat, main |-> main, apply |-> apply,
     capture |-> capture]

\* the error: label of _PyXI_Enter
EnterError(S, s, errcode, sharedns, fault) ==
    With([S2 \in {_exit_session(
                      _capture_current_exception(
                          [S EXCEPT !.sess[s].exc_override = errcode], s, fault),
                      s)} |->
        IF sharedns.st # "none"
        THEN _PyXI_FreeNamespace(S2, sharedns, PyInterpreterState_Get(S2)).w
        ELSE S2])

\* [S, res, stage, raised]: stage is the step that failed ("none", "convert",
\* "running", "main", "apply"), raised the exception pending at the error label
_PyXI_Enter(S, s, interp, nsupdates, f) ==
    With([conv \in {IF nsupdates.t # "NULL"
                    THEN _PyXI_NamespaceFromDict(S, nsupdates, PyInterpreterState_Get(S),
                                                 f.inj, f.cp, f.failat)
                    ELSE [w |-> S, ns |-> NsBlank]} |->
      LET sharedns == conv.ns
      IN IF sharedns.st = "none" /\ conv.w.err # NoExc
         THEN [S |-> conv.w, res |-> -1, stage |-> "convert", raised |-> NoExc]
         ELSE
           With([rm \in {_PyInterpreterState_SetRunningMain(
                             _enter_session(conv.w, s, interp), interp)} |->
             LET S2 == [rm.S EXCEPT !.sess[s].running = TRUE]
                 S3 == [S2 EXCEPT !.sess[s].main_ns = interp]
             IN IF rm.res < 0
                THEN [S |-> EnterError(rm.S, s, _PyXI_ERR_ALREADY_RUNNING, sharedns,
                                       f.capture),
                      res |-> -1, stage |-> "running", raised |-> rm.S.err]
                ELSE IF f.main # "none"
                THEN LET e == IF f.main = "module" THEN PyErr_NoMemory
                              ELSE Exc("SystemError", "bad argument to internal function")
                     IN [S |-> EnterError([S2 EXCEPT !.err = e], s,
                                          _PyXI_ERR_MAIN_NS_FAILURE, sharedns, f.capture),
                         res |-> -1, stage |-> "main", raised |-> e]
                ELSE IF sharedns.st = "none"
                THEN [S |-> S3, res |-> 0, stage |-> "none", raised |-> NoExc]
                ELSE
                  With([a \in {_PyXI_ApplyNamespace(S3, sharedns, S3.main[interp], NoObj,
                                                    f.apply)} |->
                    LET S4 == [S3 EXCEPT !.main[interp] = a.bind, !.err = a.err]
                    IN IF a.res < 0
                       THEN [S |-> EnterError(S4, s, _PyXI_ERR_APPLY_NS_FAILURE, sharedns,
                                              f.capture),
                             res |-> -1, stage |-> "apply", raised |-> a.err]
                       ELSE [S |-> _PyXI_FreeNamespace(
                                       S4, sharedns, PyInterpreterState_Get(S4)).w,
                             res |-> 0, stage |-> "none", raised |-> NoExc]])])])

_PyXI_Exit(S, s, fault) == _exit_session(_capture_current_exception(S, s, fault), s)

(***************************************************************************)
(* The specification of handles and namespaces.  Every call is made by a   *)
(* thread whose current interpreter, cur, is any interpreter that exists.  *)
(***************************************************************************)
Last(op, h, cur, res, err, obj, x, at, made) ==
    [op |-> op, h |-> h, cur |-> cur, res |-> res, err |-> err, obj |-> obj,
     x |-> x, at |-> at, made |-> made]

\* What the last session call was: the thread, the session and the
\* interpreter it was made with, its result, and what held when it was
\* made: owner (the interpreter's running-main owner), switched (the call
\* got as far as _enter_session), hadexc (an exception was pending when
\* capture started), fault (the failure injected into the copy of that
\* exception), ran (the session had marked the interpreter), init (the
\* session's thread state), info and exctype (what was applied), before,
\* created and raised (as in the session), convfail (the conversion of
\* nsupdates gave no namespace), stage (the step of _PyXI_Enter that
\* failed), pending (the exception that was pending at its error label).
SLastBlank ==
    [op |-> "init", t |-> 0, s |-> 0, interp |-> -1, res |-> 0, owner |-> 0,
     switched |-> FALSE, hadexc |-> FALSE, fault |-> "none", ran |-> FALSE, init |-> 0,
     info |-> NoExcInfo, exctype |-> "NULL", before |-> 0, created |-> 0,
     raised |-> NoExc, convfail |-> FALSE, stage |-> "none", pending |-> NoExc]

\* What the last registry call was: the interpreter it was made in, the
\* type, its result (res, func, err), and the registry of the type as the
\* call found it (before) and left it (after).
RLastBlank ==
    [op |-> "init", cur |-> 0, cls |-> "", res |-> 0, func |-> "NULL", err |-> NoExc,
     before |-> <<>>, after |-> <<>>]

\* a thread that is in no registry call
RThreadIdle == [pc |-> "idle", op |-> "", cls |-> "", matched |-> 0, fail |-> "none",
                res |-> 0, func |-> "NULL"]

InitRegistry ==
    _xidregistry_add_type(_register_builtins_for_crossinterpreter_data(<<>>),
                          "custom", "_custom_shared", "none").reg

\* v: the objects of the run; l: the registries in memory
InitState(v, l) ==
    /\ alive = Interps
    /\ registry = InitRegistry
    /\ vals = v
    /\ xid = [h \in XidIds |-> XidBlank]
    /\ pend = [i \in Interps |-> <<>>]
    /\ ns = NsBlank
    /\ last = Last("init", 0, 0, 0, NoExc, NoObj, XidBlank, 0, {})
    /\ tstates = [k \in TsIds |-> IF k \in Threads
                                  THEN [TstateBlank EXCEPT !.st = "live", !.interp = k - 1]
                                  ELSE TstateBlank]
    /\ current = [t \in Threads |-> t]
    /\ running_main = [i \in Interps |-> 0]
    /\ main_dict = [i \in Interps |-> EmptyBindings]
    /\ sessions = [s \in Sessions |-> SessionBlank]
    /\ slast = SLastBlank
    /\ types = [a \in HeapAddrs |-> [alive |-> TRUE, gen |-> 0]]
    /\ iregistry = [i \in Interps |-> <<>>]
    /\ rlast = RLastBlank
    /\ mutex = 0
    /\ rthreads = [t \in Threads |-> RThreadIdle]
    /\ links = l

InitWith(v) == InitState(v, LinksBlank)

Init == InitWith(CoreValues)

Behaviours(v) == IF v.t = "custom" THEN CustomBehaviours ELSE {Builtin}

\* _PyObject_GetCrossInterpreterData on a struct from
\* _PyCrossInterpreterData_New.  A struct that was not filled is given up by
\* the caller; last.x is what it held.
Produce(v, cur, oom, cp) ==
    /\ IsHeapType(v.t) => cur = 0 /\ types[v.t].alive
    /\ FreeXids(World(xid, pend, NoExc)) # {}
    /\ Cardinality({g \in XidIds : xid[g].direct}) < MaxDirect
    /\ LET h == Lowest(FreeXids(World(xid, pend, NoExc)))
           w0 == World([xid EXCEPT ![h] = [XidBlank EXCEPT !.mem = "heap", !.born = cur, !.src = v,
                                                       !.direct = TRUE]],
                       pend, NoExc)
       IN \E r \in {_PyObject_GetCrossInterpreterData(w0, v, h, cur, oom, cp)},
             R \in {_lookup_getdata_from_registry(Registries(cur), v).R} :
          /\ xid' = IF r.res = 0 THEN [r.w.xid EXCEPT ![h].held = TRUE]
                    ELSE xid
          /\ pend' = r.w.pend
          /\ last' = Last("produce", h, cur, r.res, r.w.err, v,
                          IF r.res = 0 THEN XidBlank ELSE r.w.xid[h], 0, {})
          /\ registry' = R.global
          /\ iregistry' = [iregistry EXCEPT ![cur] = R.local]
    /\ UNCHANGED <<alive, vals, ns, sessvars, types, rlast, mutex, rthreads, links>>

\* a struct its holder has filled and not released
Populated(x) == x.held /\ x.nrel = 0

NewObject(h, cur) ==
    /\ Populated(xid[h])
    /\ xid[h].interpid \in alive
    /\ LET r == _PyCrossInterpreterData_NewObject(xid[h])
       IN /\ xid' = [xid EXCEPT ![h] = [r.x EXCEPT !.nnew = IF @ < 2 THEN @ + 1 ELSE @]]
          /\ last' = Last("newobject", h, cur, 0, NoExc, r.obj,
                          [xid[h] EXCEPT !.nnew = IF @ < 2 THEN @ + 1 ELSE @], 0, {})
    /\ UNCHANGED <<alive, registry, regvars, vals, pend, ns, sessvars>>

Release(h, cur) ==
    /\ xid[h].held
    /\ xid[h].nrel < 2
    /\ \E r \in {_PyCrossInterpreterData_Release(World(xid, pend, NoExc), h, cur)} :
          /\ xid' = [r.w.xid EXCEPT ![h].nrel = @ + 1, ![h].relfrom = @ \cup {cur}]
          /\ pend' = r.w.pend
          /\ last' = Last("release", h, cur, r.res, r.w.err, NoObj, XidBlank, 0, {})
    /\ UNCHANGED <<alive, registry, regvars, vals, ns, sessvars>>

\* The struct is the caller's no longer.
ReleaseAndRawFree(h, cur) ==
    /\ xid[h].held
    /\ xid[h].mem = "heap"
    /\ \E r \in {_PyCrossInterpreterData_ReleaseAndRawFree(World(xid, pend, NoExc), h, cur)} :
          /\ xid' = [r.w.xid EXCEPT ![h].held = FALSE, ![h].relfrom = @ \cup {cur}]
          /\ pend' = r.w.pend
          /\ last' = Last("releasefree", h, cur, r.res, r.w.err, NoObj, XidBlank, 0, {})
    /\ UNCHANGED <<alive, registry, regvars, vals, ns, sessvars>>

\* The struct is the value of a namespace item (item->data), which
\* _sharednsitem_clear_value clears.
ClearItemValue(h, cur) ==
    /\ xid[h].held
    /\ \E r \in {_sharednsitem_clear_value(World(xid, pend, NoExc), Item("a", h), cur)} :
          /\ xid' = [r.w.xid EXCEPT ![h].held = FALSE, ![h].relfrom = @ \cup {cur}]
          /\ pend' = r.w.pend
          /\ last' = Last("clearvalue", h, cur, 0, r.w.err, NoObj, XidBlank, 0, {})
    /\ UNCHANGED <<alive, registry, regvars, vals, ns, sessvars>>

\* Interpreter i reaches a safe point and makes the first of its pending calls.
RunPending(i) ==
    /\ i \in alive
    /\ pend[i] # <<>>
    /\ LET call == Head(pend[i])
           w1 == _call_clear_xidata(World(xid, [pend EXCEPT ![i] = Tail(@)], NoExc),
                                    call.arg, i)
       IN /\ xid' = IF call.rawfree THEN [w1.xid EXCEPT ![call.arg] = PyMem_RawFree(@)]
                    ELSE w1.xid
          /\ pend' = w1.pend
          /\ last' = Last("pending", call.arg, i, 0, NoExc, NoObj, XidBlank, 0, {})
    /\ UNCHANGED <<alive, registry, regvars, vals, ns, sessvars>>

\* An interpreter other than the main one is destroyed; its pending calls
\* are never made.
DestroyInterp(i) ==
    /\ i \in alive
    /\ i # 0
    /\ alive' = alive \ {i}
    /\ pend' = [pend EXCEPT ![i] = <<>>]
    /\ last' = Last("destroy", 0, i, 0, NoExc, NoObj, XidBlank, 0, {})
    /\ UNCHANGED <<registry, regvars, vals, xid, ns, sessvars>>

\* One namespace is made in a run.
\* last.obj is the names object, which holds their number.
NamespaceFromNames(names, kind, failat) ==
    /\ ns.st = "none"
    /\ last.op # "fromnames"
    /\ LET r == _PyXI_NamespaceFromNames(names, kind, failat)
       IN /\ ns' = r.ns
          /\ last' = Last("fromnames", 0, 0, IF r.ns.st = "live" THEN 0 ELSE -1, r.err,
                          Obj(kind, <<Len(names)>>), XidBlank, failat, {})
    /\ UNCHANGED <<alive, registry, regvars, vals, xid, pend, sessvars>>

\* what the dict bind has for the names of n
Looked(n, bind) ==
    [nm \in DOMAIN bind |-> IF \E i \in 1..n.len : n.items[i].name = nm THEN bind[nm]
                            ELSE NoObj]

\* last.obj is what the source dict has for the names of the namespace that
\* was filled.
FillNamespaceFromDict(bind, cur, inj, cp) ==
    /\ ns.st = "live"
    /\ \A i \in 1..ns.len : ns.items[i].data = 0
    /\ Cardinality(FreeXids(World(xid, pend, NoExc))) >= ns.len
    /\ \E r \in {_PyXI_FillNamespaceFromDict(World(xid, pend, NoExc), ns, bind, cur, inj, cp)} :
          /\ xid' = r.w.xid
          /\ pend' = r.w.pend
          /\ ns' = r.ns
          /\ last' = Last("fill", 0, cur, r.res, r.w.err,
                          IF r.res = 0 THEN DictObj(Looked(ns, bind)) ELSE NoObj,
                          XidBlank, r.at, r.made)
    /\ UNCHANGED <<alive, registry, regvars, vals, sessvars>>

\* The namespace is applied to an empty dict; last.obj is the dict afterwards.
ApplyNamespace(cur, dflt, af) ==
    /\ ns.st = "live"
    /\ \E r \in {_PyXI_ApplyNamespace(World(xid, pend, NoExc), ns, NoBindings, dflt, af)} :
          last' = Last("apply", 0, cur, r.res, r.err, DictObj(r.bind), XidBlank,
                       IF r.res < 0 THEN af.at ELSE 0, {})
    /\ UNCHANGED <<alive, registry, regvars, vals, xid, pend, ns, sessvars>>

\* the failures that can happen while n is applied
ApplyFaults(n) ==
    {NoApplyFault}
    \cup {Inject(k, i) : k \in {"name", "setitem"}, i \in 1..n.len}
    \cup {Inject("value", i) : i \in {j \in 1..n.len : n.items[j].data # 0}}

\* last.made: the structs of the items of the namespace that was freed;
\* last.res and last.at: what _sharedns_has_xidata returned and the interpid
\* it stored (-1: none)
FreeNamespace(cur) ==
    /\ ns.st = "live"
    /\ \E r \in {_PyXI_FreeNamespace(World(xid, pend, NoExc), ns, cur)} :
          /\ xid' = r.w.xid
          /\ pend' = r.w.pend
          /\ ns' = r.ns
          /\ last' = Last("freens", 0, cur, r.has.res, r.w.err, NoObj, XidBlank,
                          r.has.interpid,
                          {ns.items[i].data : i \in 1..ns.len} \ {0})
    /\ UNCHANGED <<alive, registry, regvars, vals, sessvars>>

\* the custom behaviours that matter to a fill from bind
FillBehaviours(bind) ==
    IF \E nm \in NameSet : bind[nm].t = "custom" THEN CustomBehaviours ELSE {Builtin}

ProduceAny ==
    \E v \in vals, cur \in alive :
      \E oom \in {FALSE, v.t \in Allocating}, cp \in Behaviours(v) :
        Produce(v, cur, oom, cp)

NewObjectAny == \E h \in XidIds, cur \in alive : NewObject(h, cur)

DestroyAny == \E i \in Interps : DestroyInterp(i)

Next ==
    \/ ProduceAny
    \/ NewObjectAny
    \/ \E h \in XidIds, cur \in alive : Release(h, cur)
    \/ \E h \in XidIds, cur \in alive : ReleaseAndRawFree(h, cur)
    \/ \E h \in XidIds, cur \in alive : ClearItemValue(h, cur)
    \/ \E i \in Interps : RunPending(i)
    \/ DestroyAny

\* Handles: produce, reconstruct, the releases, the pending calls.
Spec == Init /\ [][Next]_vars

\* Handles, with interpreters that reach a safe point again and again: an
\* interpreter that has pending calls makes the first of them.
SpecFair == Spec /\ \A i \in Interps : WF_vars(RunPending(i))

NextNs ==
    \/ \E names \in NameLists, failat \in 0..MaxNames :
         failat <= Len(names) /\ NamespaceFromNames(names, "list", failat)
    \/ \E bind \in [NameSet -> vals \cup {NoObj}], cur \in alive :
         \E inj \in Injections(ns, bind), cp \in FillBehaviours(bind) :
           FillNamespaceFromDict(bind, cur, inj, cp)
    \/ \E cur \in alive : FreeNamespace(cur)
    \/ \E i \in Interps : RunPending(i)
    \/ DestroyAny

\* Namespaces: from names, fill, free.
SpecNs == Init /\ [][NextNs]_vars

\* Namespaces applied: from names, fill, apply with the default Dflt.
ApplyValues == {Obj("bytes", <<65, 0>>), Obj("custom", <<>>), Obj("list", <<>>)}

InitApply == InitWith(ApplyValues)

NextApply ==
    \/ \E names \in NameLists, kind \in {"list", "dict"}, failat \in 0..MaxNames :
         failat <= Len(names) /\ NamespaceFromNames(names, kind, failat)
    \/ \E bind \in [NameSet -> vals \cup {NoObj}], cur \in alive :
         FillNamespaceFromDict(bind, cur, NoInject, Builtin)
    \/ \E cur \in alive, af \in ApplyFaults(ns) : ApplyNamespace(cur, Dflt, af)

SpecApply == InitApply /\ [][NextApply]_vars

\* Round trips: one object of a built-in type, produced and reconstructed.
InitRT == \E v \in AllValues : InitWith({v})

NextRT == ProduceAny \/ NewObjectAny \/ DestroyAny

SpecRT == InitRT /\ [][NextRT]_vars

(***************************************************************************)
(* The specification of the registries: types are registered, unregistered *)
(* and looked up, heap types are destroyed and made anew at the address of *)
(* a destroyed one, by interpreter 0; both interpreters produce objects.    *)
(***************************************************************************)
\* the registries after the call become the state
CommitRegistries(cur, R) ==
    /\ registry' = R.global
    /\ iregistry' = [iregistry EXCEPT ![cur] = R.local]

\* the registry of cls, as interpreter cur sees it
RegistryOf(cur, cls) == Registries(cur)[_get_xidregistry_for_type(cls)]

RLast(op, cur, cls, res, func, err, before, after) ==
    [op |-> op, cur |-> cur, cls |-> cls, res |-> res, func |-> func, err |-> err,
     before |-> before, after |-> after]

\* the caller has the type, so it exists
UsableType(cur, cls) == IsHeapType(cls) => cur = 0 /\ types[cls].alive

RegisterClass(cur, cls, getdata, fail) ==
    /\ UsableType(cur, cls)
    /\ \E f \in {_xidregistry_find_type(RegistryOf(cur, cls), cls)} :
         f.matched # 0 => f.reg[f.matched].nreg < MaxRefs
    /\ \E r \in {_PyCrossInterpreterData_RegisterClass(Registries(cur), cls, getdata,
                                                       fail)} :
         /\ CommitRegistries(cur, r.R)
         /\ rlast' = RLast("register", cur, cls, r.res, getdata, r.err,
                           RegistryOf(cur, cls),
                           r.R[_get_xidregistry_for_type(cls)])
         /\ last' = Last("register", 0, cur, r.res, r.err, NoObj, XidBlank, 0, {})
    /\ UNCHANGED <<alive, vals, xid, pend, ns, sessvars, types, mutex, rthreads, links>>

UnregisterClass(cur, cls) ==
    /\ UsableType(cur, cls)
    /\ \E r \in {_PyCrossInterpreterData_UnregisterClass(Registries(cur), cls)} :
         /\ CommitRegistries(cur, r.R)
         /\ rlast' = RLast("unregister", cur, cls, r.res, "NULL", NoExc,
                           RegistryOf(cur, cls),
                           r.R[_get_xidregistry_for_type(cls)])
         /\ last' = Last("unregister", 0, cur, r.res, NoExc, NoObj, XidBlank, 0, {})
    /\ UNCHANGED <<alive, vals, xid, pend, ns, sessvars, types, mutex, rthreads, links>>

\* _lookup_getdata_from_registry for an object of type cls
Lookup(cur, cls) ==
    /\ UsableType(cur, cls)
    /\ \E r \in {_lookup_getdata_from_registry(Registries(cur), Obj(cls, <<>>))} :
         /\ CommitRegistries(cur, r.R)
         /\ rlast' = RLast("lookup", cur, cls, 0, r.func, NoExc,
                           RegistryOf(cur, cls),
                           r.R[_get_xidregistry_for_type(cls)])
         /\ last' = Last("lookup", 0, cur, 0, NoExc, NoObj, XidBlank, 0, {})
    /\ UNCHANGED <<alive, vals, xid, pend, ns, sessvars, types, mutex, rthreads, links>>

\* The last reference to the heap type at address a goes away.
DestroyType(a) ==
    /\ types[a].alive
    /\ \A h \in XidIds : xid[h].obj.t # a
    /\ types' = [types EXCEPT ![a].alive = FALSE]
    /\ rlast' = [RLastBlank EXCEPT !.op = "destroytype", !.cls = a]
    /\ last' = Last("destroytype", 0, 0, 0, NoExc, NoObj, XidBlank, 0, {})
    /\ UNCHANGED <<alive, registry, vals, xid, pend, ns, sessvars, iregistry, mutex,
                   rthreads, links>>

\* A new heap type is allocated at the address of a destroyed one.
NewType(a) ==
    /\ ~types[a].alive
    /\ types[a].gen < MaxGen
    /\ types' = [types EXCEPT ![a].alive = TRUE, ![a].gen = @ + 1]
    /\ rlast' = [RLastBlank EXCEPT !.op = "newtype", !.cls = a]
    /\ last' = Last("newtype", 0, 0, 0, NoExc, NoObj, XidBlank, 0, {})
    /\ UNCHANGED <<alive, registry, vals, xid, pend, ns, sessvars, iregistry, mutex,
                   rthreads, links>>

\* the types that are registered and unregistered, and those looked up
RegTypes == {"custom", "H1"}
LookupTypes == RegTypes \cup {"H2", "list"}

\* the heap type that is destroyed and made anew
Mortal == {"H1"}

\* the allocations that can fail when cls is registered
AddFaults(cls) == {"none", "item"} \cup (IF IsHeapType(cls) THEN {"weakref"} ELSE {})

RegValues == {Obj("custom", <<>>), Obj("H1", <<>>)}

InitReg == InitWith(RegValues)

NextReg ==
    \/ \E cls \in RegTypes, getdata \in {"_custom_shared", "NULL"} :
         \E fail \in AddFaults(cls) : RegisterClass(0, cls, getdata, fail)
    \/ \E cls \in RegTypes : UnregisterClass(0, cls)
    \/ \E cls \in LookupTypes : Lookup(0, cls)
    \/ \E a \in Mortal : DestroyType(a)
    \/ \E a \in Mortal : NewType(a)
    \/ \E v \in vals, cur \in alive : Produce(v, cur, FALSE, Builtin)

SpecReg == InitReg /\ [][NextReg]_vars

(***************************************************************************)
(* The specification of the scan of a registry: heap types are registered, *)
(* looked up, destroyed and made anew, and nothing is unregistered, so     *)
(* that entries of destroyed types stand before and after those of others. *)
(***************************************************************************)
\* the heap types of the scan
ScanAddrs == {"H1", "H2"}

NextScan ==
    \/ \E cls \in ScanAddrs, fail \in {"none", "weakref"} :
         RegisterClass(0, cls, "_custom_shared", fail)
    \/ \E cls \in LookupTypes : Lookup(0, cls)
    \/ \E a \in ScanAddrs : DestroyType(a)
    \/ \E a \in ScanAddrs : NewType(a)

SpecScan == InitReg /\ [][NextScan]_vars

(***************************************************************************)
(* The specification of registry calls made in parallel.  Thread 1 runs in *)
(* the main interpreter and thread 2 in the other one, each with its own   *)
(* GIL, so their calls interleave statement by statement: a call takes the *)
(* lock, scans, updates (a new entry is linked in two steps: the old       *)
(* head's prev first, the registry's head after it) and releases the lock. *)
(* A thread that returned keeps what it was called with and what it got.   *)
(* rlast is what the call that took the process-wide mutex last would do   *)
(* if it ran alone from there.                                             *)
(***************************************************************************)
InterpOf(t) == tstates[current[t]].interp

WhichOf(t) == _get_xidregistry_for_type(rthreads[t].cls)

\* the registry thread t works on
RegOf(t) == Registries(InterpOf(t))[WhichOf(t)]

SetReg(t, reg) ==
    IF WhichOf(t) = "global"
    THEN registry' = reg /\ UNCHANGED iregistry
    ELSE iregistry' = [iregistry EXCEPT ![InterpOf(t)] = reg] /\ UNCHANGED registry

\* register calls on cls that have not returned, but for thread t's
Registering(t, cls) ==
    Cardinality({u \in Threads \ {t} : /\ rthreads[u].pc # "idle"
                                       /\ rthreads[u].op = "register"
                                       /\ rthreads[u].cls = cls})

\* matched still points at an entry of cls
ValidMatch(reg, matched, cls) == matched <= Len(reg) /\ reg[matched].cls = cls

ParOthers == <<alive, vals, xid, pend, ns, last, sessvars, types, links>>

ParCall(t, op, cls, fail) ==
    /\ rthreads[t].pc = "idle"
    /\ UsableType(InterpOf(t), cls)
    /\ op = "register" =>
          LET reg == RegistryOf(InterpOf(t), cls)
          IN \A i \in 1..Len(reg) :
                reg[i].cls = cls => reg[i].nreg + Registering(t, cls) < MaxRefs
    /\ rthreads' = [rthreads EXCEPT ![t] = [pc |-> "lock", op |-> op, cls |-> cls,
                                           matched |-> 0, fail |-> fail, res |-> 0,
                                           func |-> "NULL"]]
    /\ UNCHANGED <<ParOthers, registry, iregistry, rlast, mutex>>

\* the call of thread t, run alone from the current state: [R, res, func]
Alone(t) ==
    LET R == Registries(InterpOf(t))
        c == rthreads[t]
    IN CASE c.op = "register" ->
              With([r \in {_PyCrossInterpreterData_RegisterClass(
                               R, c.cls, "_custom_shared", c.fail)} |->
                  [R |-> r.R, res |-> r.res, func |-> "NULL"]])
         [] c.op = "unregister" ->
              With([r \in {_PyCrossInterpreterData_UnregisterClass(R, c.cls)} |->
                  [R |-> r.R, res |-> r.res, func |-> "NULL"]])
         [] c.op = "lookup" ->
              With([r \in {_lookup_getdata_from_registry(R, Obj(c.cls, <<>>))} |->
                  [R |-> r.R, res |-> 0, func |-> r.func]])

ParLock(t) ==
    /\ rthreads[t].pc = "lock"
    /\ \E r \in {_xidregistry_lock(WhichOf(t), mutex, t)} :
         /\ r.ok
         /\ mutex' = r.mutex
    /\ rthreads' = [rthreads EXCEPT ![t].pc = "find"]
    /\ IF HasMutex(WhichOf(t))
       THEN \E a \in {Alone(t)} :
              rlast' = RLast(rthreads[t].op, InterpOf(t), rthreads[t].cls, a.res, a.func,
                             NoExc, RegOf(t), a.R[WhichOf(t)])
       ELSE UNCHANGED rlast
    /\ UNCHANGED <<ParOthers, registry, iregistry>>

ParFind(t) ==
    /\ rthreads[t].pc = "find"
    /\ \E f \in {_xidregistry_find_type(RegOf(t), rthreads[t].cls)} :
         /\ SetReg(t, f.reg)
         /\ rthreads' = [rthreads EXCEPT ![t].pc = "update", ![t].matched = f.matched]
    /\ UNCHANGED <<ParOthers, rlast, mutex>>

\* the statements between the scan and the unlock, but for the last one
\* of _xidregistry_add_type
ParUpdate(t) ==
    /\ rthreads[t].pc = "update"
    /\ LET c == rthreads[t]
           reg == RegOf(t)
           Return(res, func) == [rthreads EXCEPT ![t].pc = "unlock", ![t].res = res,
                                                 ![t].func = func]
       IN IF c.matched # 0 /\ ~ValidMatch(reg, c.matched, c.cls)
          THEN \* the entry was freed under the thread
               rthreads' = Return(-1, "freed") /\ UNCHANGED <<registry, iregistry>>
          ELSE CASE c.op = "register" /\ c.matched # 0 ->
                      /\ SetReg(t, [reg EXCEPT ![c.matched].refcount = @ + 1,
                                               ![c.matched].nreg = @ + 1])
                      /\ rthreads' = Return(0, "NULL")
                 [] c.op = "register" /\ c.matched = 0 ->
                      /\ UNCHANGED <<registry, iregistry>>
                      /\ IF _xidregistry_add_type(reg, c.cls, "_custom_shared",
                                                  c.fail).res < 0
                         THEN rthreads' = Return(-1, "NULL")
                         ELSE rthreads' = [rthreads EXCEPT ![t].pc = "link"]
                 [] c.op = "unregister" /\ c.matched # 0 ->
                      /\ LET reg1 == [reg EXCEPT ![c.matched].refcount = @ - 1,
                                                 ![c.matched].nunreg = @ + 1]
                         IN SetReg(t, IF reg1[c.matched].refcount = 0
                                      THEN _xidregistry_remove_entry(reg1, c.matched)
                                      ELSE reg1)
                      /\ rthreads' = Return(1, "NULL")
                 [] c.op = "unregister" /\ c.matched = 0 ->
                      /\ UNCHANGED <<registry, iregistry>>
                      /\ rthreads' = Return(0, "NULL")
                 [] c.op = "lookup" ->
                      /\ UNCHANGED <<registry, iregistry>>
                      /\ rthreads' = Return(0, IF c.matched # 0 THEN reg[c.matched].getdata
                                               ELSE "NULL")
    /\ UNCHANGED <<ParOthers, rlast, mutex>>

\* xidregistry->head = newhead
ParLink(t) ==
    /\ rthreads[t].pc = "link"
    /\ SetReg(t, _xidregistry_add_type(RegOf(t), rthreads[t].cls, "_custom_shared",
                                       "none").reg)
    /\ rthreads' = [rthreads EXCEPT ![t].pc = "unlock", ![t].res = 0]
    /\ UNCHANGED <<ParOthers, rlast, mutex>>

ParUnlock(t) ==
    /\ rthreads[t].pc = "unlock"
    /\ mutex' = _xidregistry_unlock(WhichOf(t), mutex)
    /\ rthreads' = [rthreads EXCEPT ![t].pc = "idle"]
    /\ UNCHANGED <<ParOthers, registry, iregistry, rlast>>

ParTypes == {"custom", "H1"}

NextPar ==
    \/ \E t \in Threads, cls \in ParTypes :
         \E fail \in AddFaults(cls) : ParCall(t, "register", cls, fail)
    \/ \E t \in Threads, cls \in ParTypes : ParCall(t, "unregister", cls, "none")
    \/ \E t \in Threads, cls \in ParTypes \cup {"list"} : ParCall(t, "lookup", cls, "none")
    \/ \E t \in Threads : ParLock(t)
    \/ \E t \in Threads : ParFind(t)
    \/ \E t \in Threads : ParUpdate(t)
    \/ \E t \in Threads : ParLink(t)
    \/ \E t \in Threads : ParUnlock(t)

SpecPar == InitReg /\ [][NextPar]_vars

(***************************************************************************)
(* The specification of the two releases alone: structs are produced,      *)
(* released with either call from either interpreter, pending calls run    *)
(* and the other interpreter may be destroyed.                             *)
(***************************************************************************)
NextRelease ==
    \/ \E v \in vals, cur \in alive : \E cp \in Behaviours(v) : Produce(v, cur, FALSE, cp)
    \/ \E h \in XidIds, cur \in alive : Release(h, cur)
    \/ \E h \in XidIds, cur \in alive : ReleaseAndRawFree(h, cur)
    \/ \E i \in Interps : RunPending(i)
    \/ DestroyAny

SpecRelease == Init /\ [][NextRelease]_vars

(***************************************************************************)
(* The specification of freeing a namespace while other releases are in    *)
(* flight: a namespace is made, filled and freed, in any interpreters,     *)
(* while a struct of a caller's own is produced and released, so that the  *)
(* queue of the owner holds other calls when the namespace is freed.       *)
(***************************************************************************)
NextNsFree ==
    \/ \E names \in NameLists : NamespaceFromNames(names, "list", 0)
    \/ \E bind \in [NameSet -> vals \cup {NoObj}], cur \in alive :
         FillNamespaceFromDict(bind, cur, NoInject, Builtin)
    \/ \E cur \in alive : FreeNamespace(cur)
    \/ \E v \in vals, cur \in alive : Produce(v, cur, FALSE, Builtin)
    \/ \E h \in XidIds, cur \in alive : Release(h, cur)
    \/ \E i \in Interps : RunPending(i)
    \/ DestroyAny

SpecNsFree == Init /\ [][NextNsFree]_vars

(***************************************************************************)
(* The specification of _release_xid_data: thread 1 (main interpreter) and *)
(* thread 2 (the other one) produce structs and release them the way       *)
(* _sharednsitem_clear_value does, with or without an exception pending.   *)
(***************************************************************************)
\* what a caller has pending when it clears a value: a failed fill's error
CallerExcs == {PyErr_NoMemory, Exc("NotShareableError", "list does not support cross-interpreter data")}

\* A caller is left with an exception by something it did before.
SetException(t, e) ==
    /\ InterpOf(t) \in alive
    /\ tstates[current[t]].exc = NoExc
    /\ tstates' = [tstates EXCEPT ![current[t]].exc = e]
    /\ last' = Last("raise", 0, InterpOf(t), 0, e, NoObj, XidBlank, 0, {})
    /\ UNCHANGED <<alive, registry, regvars, vals, xid, pend, ns, current, running_main,
                   main_dict, sessions, slast>>

\* int rawfree = 1; _release_xid_data(data, rawfree): last.x is the struct
\* as the call found it, last.err the exception pending when it returned.
ReleaseXidData(t, h) ==
    /\ InterpOf(t) \in alive
    /\ xid[h].held
    /\ \E r \in {_release_xid_data(World(xid, pend, tstates[current[t]].exc), h, TRUE,
                                    InterpOf(t))} :
          /\ xid' = [r.w.xid EXCEPT ![h].held = FALSE, ![h].relfrom = @ \cup {InterpOf(t)}]
          /\ pend' = r.w.pend
          /\ tstates' = [tstates EXCEPT ![current[t]].exc = r.w.err]
          /\ last' = Last("relxid", h, InterpOf(t), r.res, r.w.err, NoObj, xid[h], 0, {})
    /\ UNCHANGED <<alive, registry, regvars, vals, ns, current, running_main, main_dict,
                   sessions, slast>>

NextClear ==
    \/ \E v \in vals, cur \in alive : \E cp \in Behaviours(v) : Produce(v, cur, FALSE, cp)
    \/ \E t \in Threads, e \in CallerExcs : SetException(t, e)
    \/ \E t \in Threads, h \in XidIds : ReleaseXidData(t, h)
    \/ \E i \in Interps : RunPending(i)
    \/ DestroyAny

SpecClear == Init /\ [][NextClear]_vars

(***************************************************************************)
(* The specification of sessions: threads enter and exit sessions, raise   *)
(* exceptions in them, and apply what was captured.  Thread 1 starts in    *)
(* the main interpreter, thread 2 in the other one.                        *)
(***************************************************************************)
\* the world thread t makes a call in
SW(t) ==
    [xid |-> xid, pend |-> pend, err |-> tstates[current[t]].exc, ts |-> tstates,
     cur |-> current[t], main |-> main_dict, flag |-> running_main, sess |-> sessions]

\* the world after the call becomes the state
Commit(t, S, ss) ==
    /\ xid' = S.xid
    /\ pend' = S.pend
    /\ tstates' = [S.ts EXCEPT ![S.cur].exc = S.err]
    /\ current' = [current EXCEPT ![t] = S.cur]
    /\ main_dict' = S.main
    /\ running_main' = S.flag
    /\ sessions' = ss

\* a value whose struct has a block to free, and one that is not shareable
SessionValues == {Obj("bytes", <<65, 0>>), Obj("list", <<>>)}

InitSession == InitWith(SessionValues)

\* what a script raises
Raisable == {Exc("ValueIssue", "bad input"), ExcNone("Stop")}

Wrappers == {"NULL", "RunFailedError"}

\* the dicts given to _PyXI_Enter
NsUpdates ==
    {NsObj("NULL", EmptyBindings), NsObj("dict", EmptyBindings)}
    \cup {NsObj("dict", [EmptyBindings EXCEPT !["a"] = v]) : v \in vals}

\* the number of structs the conversion of nsupdates needs
Needs(nsupdates) == IF nsupdates.t = "dict" THEN Len(Keys(nsupdates.d)) ELSE 0

NoFaults == EnterFaults(NoInject, Builtin, 0, "none", NoApplyFault, "none")

\* the failures injected into an Enter without nsupdates
PlainFaults ==
    {EnterFaults(NoInject, Builtin, 0, m, NoApplyFault, c) :
        m \in {"none", "module"}, c \in {"none", "msg_copy"}}

\* the failures injected into an Enter with nsupdates: of its conversion,
\* of its application
FaultsOf(nsupdates) ==
    IF Needs(nsupdates) = 0 THEN PlainFaults
    ELSE {NoFaults}
         \cup {EnterFaults(Inject("item", k), Builtin, 0, "none", NoApplyFault, "none") :
                 k \in 1..Needs(nsupdates)}
         \cup {EnterFaults(NoInject, Builtin, 0, "none", Inject("value", k), "none") :
                 k \in 1..Needs(nsupdates)}

\* _PyXI_NamespaceFromDict gave no namespace for an nsupdates that has one:
\* NULL, None and the dict without keys have none.
ConversionFails(nsupdates, conv) ==
    /\ nsupdates.t \notin {"NULL", "NoneType"}
    /\ ~(nsupdates.t = "dict" /\ Needs(nsupdates) = 0)
    /\ conv.ns.st = "none"

\* The session is the first one not in use.  One dict with values is
\* converted in a run, and there are structs for its items.
Enter(t, s, interp, nsupdates, f) ==
    /\ s = Lowest({k \in Sessions : sessions[k].by = 0} \cup {MaxSessions + 1})
    /\ tstates[current[t]].exc = NoExc
    /\ interp \in alive
    /\ interp # tstates[current[t]].interp => FreeTstates(SW(t)) # {}
    /\ Needs(nsupdates) > 0 =>
         /\ \A h \in XidIds : xid[h].mem = "none" \/ xid[h].direct
         /\ Cardinality(FreeXids(SW(t))) >= Needs(nsupdates)
    /\ \E S \in {SW(t)} :
       \E r \in {_PyXI_Enter(S, s, interp, nsupdates, f)},
          conv \in {_PyXI_NamespaceFromDict(S, nsupdates, tstates[current[t]].interp,
                                           f.inj, f.cp, f.failat)} :
       LET switched == ~(nsupdates.t # "NULL" /\ conv.ns.st = "none"
                         /\ conv.w.err # NoExc)
           created == IF switched /\ interp # tstates[current[t]].interp
                      THEN Lowest(FreeTstates(S)) ELSE 0
           kept == r.res = 0 \/ r.S.sess[s].exc # <<>>
           ss == [r.S.sess EXCEPT
                    ![s].by = IF kept THEN t ELSE 0,
                    ![s].before = IF r.res = 0 THEN current[t] ELSE 0,
                    ![s].created = IF r.res = 0 THEN created ELSE 0]
       IN /\ Commit(t, r.S, ss)
          /\ slast' = [SLastBlank EXCEPT !.op = "enter", !.t = t, !.s = s,
                                         !.interp = interp, !.res = r.res,
                                         !.owner = running_main[interp],
                                         !.switched = switched,
                                         !.hadexc = switched /\ r.res < 0,
                                         !.fault = IF switched /\ r.res < 0
                                                      /\ running_main[interp] = 0
                                                   THEN f.capture ELSE "none",
                                         !.ran = switched /\ running_main[interp] = 0,
                                         !.init = IF created # 0 THEN created
                                                  ELSE current[t],
                                         !.before = current[t],
                                         !.created = created,
                                         !.convfail = ConversionFails(nsupdates, conv),
                                         !.stage = r.stage,
                                         !.pending = r.raised]
    /\ UNCHANGED <<alive, registry, regvars, vals, ns, last>>

\* The exception pending at the call, if any, is one the script raised.
Exit(t, s, fault) ==
    /\ _session_is_active(SW(t), s)
    /\ current[t] = sessions[s].init_tstate
    /\ tstates[current[t]].exc \in Raisable \cup {NoExc}
    /\ fault # "none" => tstates[current[t]].exc # NoExc
    /\ \E S \in {SW(t)} :
       \E S1 \in {_PyXI_Exit(S, s, fault)} :
       LET ss == [S1.sess EXCEPT ![s].by = IF S1.sess[s].exc # <<>> THEN t ELSE 0,
                                 ![s].before = 0,
                                 ![s].created = 0,
                                 ![s].raised = IF S1.sess[s].exc # <<>> THEN S.err
                                               ELSE NoExc]
       IN /\ Commit(t, S1, ss)
          /\ slast' = [SLastBlank EXCEPT !.op = "exit", !.t = t, !.s = s,
                                         !.interp = tstates[current[t]].interp,
                                         !.switched = TRUE,
                                         !.hadexc = S.err # NoExc,
                                         !.fault = fault,
                                         !.ran = sessions[s].running,
                                         !.init = sessions[s].init_tstate,
                                         !.before = sessions[s].before,
                                         !.created = sessions[s].created]
    /\ UNCHANGED <<alive, registry, regvars, vals, ns, last>>

\* The code that runs in a session raises an exception.
Raise(t, e) ==
    /\ tstates[current[t]].exc = NoExc
    /\ \E s \in Sessions : sessions[s].init_tstate = current[t]
    /\ tstates' = [tstates EXCEPT ![current[t]].exc = e]
    /\ slast' = [SLastBlank EXCEPT !.op = "raise", !.t = t]
    /\ UNCHANGED <<alive, registry, regvars, vals, xid, pend, ns, last, current, running_main,
                   main_dict, sessions>>

\* The caller of _PyXI_Enter or _PyXI_Exit applies what the session captured.
ApplyCapturedException(t, s, excwrapper) ==
    /\ sessions[s].by = t
    /\ ~_session_is_active(SW(t), s)
    /\ _PyXI_HasCapturedException(SW(t), s)
    /\ tstates[current[t]].exc = NoExc
    /\ \E S1 \in {_PyXI_ApplyCapturedException(SW(t), s, excwrapper)} :
          /\ Commit(t, S1, [S1.sess EXCEPT ![s].by = 0, ![s].raised = NoExc])
          /\ slast' = [SLastBlank EXCEPT !.op = "applycaptured", !.t = t, !.s = s,
                                         !.info = sessions[s].exc[1],
                                         !.raised = sessions[s].raised,
                                         !.exctype = excwrapper]
    /\ UNCHANGED <<alive, registry, regvars, vals, ns, last>>

\* the codes of a snapshot that is applied
AppliedCodes ==
    {_PyXI_ERR_UNCAUGHT_EXCEPTION, _PyXI_ERR_OTHER, _PyXI_ERR_NO_MEMORY,
     _PyXI_ERR_ALREADY_RUNNING, _PyXI_ERR_MAIN_NS_FAILURE, _PyXI_ERR_APPLY_NS_FAILURE,
     _PyXI_ERR_NOT_SHAREABLE}

\* the snapshots given to _PyXI_ApplyExceptionInfo
Snapshots ==
    {XIExcInfo(0, code, ExcInfo(ty, ms)) :
        code \in AppliedCodes,
        ty \in {NullStr, Str("ValueIssue")}, ms \in {NullStr, Str("bad input")}}

\* A snapshot with the code ALREADY_RUNNING is applied while its interpreter
\* is running main (the assertion of _PyXI_ApplyErrorCode).
ApplyExceptionInfo(t, info, exctype) ==
    /\ tstates[current[t]].exc = NoExc
    /\ info.code = _PyXI_ERR_ALREADY_RUNNING => running_main[info.interp] # 0
    /\ tstates' = [tstates EXCEPT ![current[t]].exc =
                                      _PyXI_ApplyExceptionInfo(info, exctype, running_main)]
    /\ slast' = [SLastBlank EXCEPT !.op = "applyinfo", !.t = t, !.info = info,
                                   !.exctype = exctype]
    /\ UNCHANGED <<alive, registry, regvars, vals, xid, pend, ns, last, current, running_main,
                   main_dict, sessions>>

\* The code that runs in thread t handles the pending exception.
Handle(t) ==
    /\ tstates[current[t]].exc # NoExc
    /\ tstates' = [tstates EXCEPT ![current[t]].exc = NoExc]
    /\ slast' = [SLastBlank EXCEPT !.op = "handle", !.t = t]
    /\ UNCHANGED <<alive, registry, regvars, vals, xid, pend, ns, last, current, running_main,
                   main_dict, sessions>>

\* Sessions of two threads, entered without nsupdates.
NextSession ==
    \/ \E t \in Threads, s \in Sessions, interp \in Interps :
         Enter(t, s, interp, NsObj("NULL", EmptyBindings), NoFaults)
    \/ \E t \in Threads, s \in Sessions : Exit(t, s, "none")
    \/ \E t \in Threads : Raise(t, Exc("ValueIssue", "bad input"))
    \/ \E t \in Threads, s \in Sessions : ApplyCapturedException(t, s, "RunFailedError")
    \/ \E t \in Threads : Handle(t)

SpecSession == InitSession /\ [][NextSession]_vars

\* Sessions of one thread, entered with and without nsupdates.
NextEnter ==
    \/ \E s \in Sessions, interp \in Interps, nsupdates \in NsUpdates :
         \E f \in FaultsOf(nsupdates) : Enter(1, s, interp, nsupdates, f)
    \/ \E s \in Sessions :
         \E fault \in {"none", "name_format", "msg_copy"} : Exit(1, s, fault)
    \/ Raise(1, Exc("ValueIssue", "bad input"))
    \/ \E s \in Sessions : ApplyCapturedException(1, s, "RunFailedError")
    \/ Handle(1)
    \/ \E i \in Interps : RunPending(i)

SpecEnter == InitSession /\ [][NextEnter]_vars

\* Exceptions: raised in a session, captured, applied; snapshots applied.
NextExc ==
    \/ \E s \in Sessions, interp \in Interps :
         Enter(1, s, interp, NsObj("NULL", EmptyBindings), NoFaults)
    \/ \E s \in Sessions : Exit(1, s, "none")
    \/ \E e \in Raisable : Raise(1, e)
    \/ \E s \in Sessions, w \in Wrappers : ApplyCapturedException(1, s, w)
    \/ \E info \in Snapshots, w \in Wrappers : ApplyExceptionInfo(1, info, w)
    \/ Handle(1)

SpecExc == InitSession /\ [][NextExc]_vars

(***************************************************************************)
(* Properties of handles (Spec), of the round trip (SpecRT) and of         *)
(* namespaces (SpecNs).                                                    *)
(***************************************************************************)
\* something is left that a release has to destroy
HasPayload(x) == (~IsNull(x.data) /\ x.free) \/ x.obj # NoObj

C4_SecondReleaseSucceeds ==
    /\ \A h \in XidIds : xid[h].nfree <= 1 /\ xid[h].ndecref <= 1
    /\ last.op = "release" /\ xid[last.h].nrel = 2 => last.res = 0

\* C4, amended: data->free runs at most once and data->obj is released at
\* most once; the second call returns 0 without fault unless the owner no
\* longer exists and the payload is still to be destroyed: then it returns
\* -1 and runs nothing.
C4_IdempotentRelease ==
    /\ \A h \in XidIds : xid[h].nfree <= 1 /\ xid[h].ndecref <= 1
    /\ last.op = "release" /\ xid[last.h].nrel = 2 =>
         /\ ~xid[last.h].fault
         /\ last.res \in {0, -1}
         /\ last.res = -1 <=>
              xid[last.h].interpid \notin alive /\ HasPayload(xid[last.h])

\* C4, witness: the second release was called from another interpreter
\* before the first deferred call ran; both calls are queued on the owner.
C4_Witness ==
    /\ last.op = "release" /\ xid[last.h].nrel = 2 /\ last.res = 0
    /\ last.cur # xid[last.h].interpid
    /\ Len(pend[xid[last.h].interpid]) = 2

C10_RoundTrip ==
    last.op = "newobject" =>
        /\ last.obj = xid[last.h].src
        /\ xid[last.h] = last.x

\* C10, witness: a str with a two-byte code point produced in one
\* interpreter was made a second time, in another interpreter.
C10_Witness ==
    /\ last.op = "newobject" /\ last.obj.t = "str" /\ xid[last.h].data.kind = 2
    /\ xid[last.h].nnew = 2
    /\ last.cur # xid[last.h].born

\* a struct whose payload has been destroyed in its owner, with no call pending
Released(h) ==
    /\ IsNull(xid[h].data) /\ xid[h].obj = NoObj
    /\ \A r \in xid[h].ranon : r.on = xid[h].born
    /\ \A i \in Interps : \A k \in 1..Len(pend[i]) : pend[i][k].arg # h

\* C6: when _PyXI_FillNamespaceFromDict fails, no item of the namespace
\* holds a struct and every struct filled for the items before the failing
\* one has been released.
C6_FailedFillLeavesNoValue ==
    last.op = "fill" /\ last.res = -1 =>
        /\ \A i \in 1..ns.len : ns.items[i].data = 0
        /\ \A h \in last.made : Released(h)

\* C6, witness: the fill failed at the second item after the first item's
\* struct, with a block and a retained object, had been filled.
C6_Witness ==
    /\ last.op = "fill" /\ last.res = -1 /\ last.at = 2
    /\ \E h \in last.made : xid[h].nfree = 1 /\ xid[h].ndecref = 1

(***************************************************************************)
(* Properties of sessions (SpecSession, SpecEnter) and of exception        *)
(* snapshots (SpecExc).                                                    *)
(***************************************************************************)
\* the sessions that hold interpreter i as its running main
Holders(i) ==
    {s \in Sessions : sessions[s].running
                      /\ tstates[sessions[s].init_tstate].interp = i}

Idle(ss) ==
    /\ ss.init_tstate = 0 /\ ss.prev_tstate = 0 /\ ~ss.own_init_tstate
    /\ ~ss.running /\ ss.main_ns = -1

C2_OneMainOwner ==
    \A i \in Interps :
        /\ Cardinality(Holders(i)) <= 1
        /\ running_main[i] # 0 <=> Holders(i) # {}
        /\ \A s \in Holders(i) : running_main[i] = sessions[s].init_tstate

\* C2, witness: while one thread's session holds the interpreter, the
\* _PyXI_Enter of the other thread on it has failed.
C2_Witness ==
    /\ slast.op = "enter" /\ slast.res = -1 /\ slast.owner # 0
    /\ \E s \in Holders(slast.interp) : sessions[s].by # slast.t
    /\ sessions[slast.s].by = slast.t

\* C7: after _PyXI_Exit, and after a _PyXI_Enter that fails after
\* _enter_session, the session is idle, the thread's current thread state
\* is the one it had before _PyXI_Enter, the interpreter the session had
\* marked has no running-main owner, and the session's thread state is
\* destroyed exactly when _enter_session made it.
C7_ExitUnwinds ==
    \/ slast.op = "exit"
    \/ slast.op = "enter" /\ slast.res = -1 /\ slast.switched
    =>
    /\ Idle(sessions[slast.s])
    /\ current[slast.t] = slast.before
    /\ slast.ran => running_main[slast.interp] = 0
    /\ slast.created # 0 <=> tstates[slast.init].st = "free"

\* C7, witness: a _PyXI_Enter that had made a thread state and marked the
\* interpreter failed to apply nsupdates.
C7_Witness ==
    /\ slast.op = "enter" /\ slast.res = -1 /\ slast.switched
    /\ slast.created # 0 /\ slast.ran
    /\ sessions[slast.s].exc # <<>>
    /\ sessions[slast.s].exc[1].code = _PyXI_ERR_APPLY_NS_FAILURE

\* C8, as stated: after _capture_current_exception the session holds a
\* captured exception exactly when an exception was pending when it
\* started; when the copy of the type name or of the message failed, the
\* captured code is NO_MEMORY or OTHER and no type name or message is kept;
\* no exception is pending afterwards.
C8_CaptureNeverFails ==
    \/ slast.op = "exit"
    \/ slast.op = "enter" /\ slast.res = -1 /\ slast.switched
    =>
    /\ _PyXI_HasCapturedException(SW(slast.t), slast.s) <=> slast.hadexc
    /\ slast.hadexc /\ slast.fault # "none" =>
         /\ sessions[slast.s].exc # <<>>
         /\ sessions[slast.s].exc[1].code \in {_PyXI_ERR_NO_MEMORY, _PyXI_ERR_OTHER}
         /\ sessions[slast.s].exc[1].uncaught = ExcInfo(NullStr, NullStr)
    /\ tstates[current[slast.t]].exc = NoExc

\* the exception type a snapshot is applied with
TargetKind(exctype) == IF exctype = "NULL" THEN "RuntimeError" ELSE exctype

\* C9: a snapshot with code UNCAUGHT_EXCEPTION is applied as an exception
\* of the target type whose message is "type: msg" when it has both, the
\* message or the type name when it has one, and that has no argument when
\* it has neither; an exception with type name T and message M raised in a
\* session and applied after _PyXI_Exit has the message "T: M".
C9_ExceptionFidelity ==
    LET e == tstates[current[slast.t]].exc
        ty == slast.info.uncaught.type
        ms == slast.info.uncaught.msg
    IN /\ slast.op = "applyinfo" /\ slast.info.code = _PyXI_ERR_UNCAUGHT_EXCEPTION =>
            /\ e.t = TargetKind(slast.exctype)
            /\ e.ctx = <<>>
            /\ ty # NullStr /\ ms # NullStr => e.args = <<ty[1] \o ": " \o ms[1]>>
            /\ ty = NullStr /\ ms # NullStr => e.args = ms
            /\ ty # NullStr /\ ms = NullStr => e.args = ty
            /\ ty = NullStr /\ ms = NullStr => e.args = <<>>
       /\ slast.op = "applycaptured"
          /\ slast.info.code = _PyXI_ERR_UNCAUGHT_EXCEPTION =>
            /\ e.t = TargetKind(slast.exctype)
            /\ e.args = <<slast.raised.t \o ": " \o PyObject_Str(slast.raised)>>
            /\ slast.raised = Exc("ValueIssue", "bad input") =>
                 PyObject_Str(e) = "ValueIssue: bad input"

\* C9, witness: the exception ValueIssue("bad input") raised in a session
\* on one interpreter has been applied in another interpreter.
C9_Witness ==
    /\ slast.op = "applycaptured"
    /\ slast.info.code = _PyXI_ERR_UNCAUGHT_EXCEPTION
    /\ slast.raised = Exc("ValueIssue", "bad input")
    /\ slast.info.interp # tstates[current[slast.t]].interp
    /\ tstates[current[slast.t]].exc.t = "RunFailedError"

(***************************************************************************)
(* Properties of the registries (SpecReg).                                 *)
(***************************************************************************)
AllRegistries == {registry} \cup {iregistry[i] : i \in Interps}

\* the entries of reg for the type that is cls now
LiveEntries(reg, cls) == {i \in 1..Len(reg) : reg[i].cls = cls /\ LiveItem(reg[i])}

\* C11: a registry holds at most one entry for a type; its refcount is the
\* number of RegisterClass calls minus the number of UnregisterClass calls
\* since it was made and is never zero; UnregisterClass returns 1 when the
\* type had an entry, which is removed exactly when its refcount was 1, and
\* 0 when it had none; a type without an entry is not found by a lookup and
\* an object of it is not shareable.
C11_RefCountedRegistration ==
    /\ \A reg \in AllRegistries : \A i \in 1..Len(reg) :
         /\ reg[i].refcount = reg[i].nreg - reg[i].nunreg
         /\ reg[i].refcount >= 1
         /\ LiveItem(reg[i]) => LiveEntries(reg, reg[i].cls) = {i}
    /\ rlast.op = "unregister" =>
         LET had == LiveEntries(rlast.before, rlast.cls)
             left == LiveEntries(rlast.after, rlast.cls)
         IN /\ rlast.res = IF had # {} THEN 1 ELSE 0
            /\ \A i \in had :
                 IF rlast.before[i].refcount = 1 THEN left = {}
                 ELSE \E j \in left :
                        rlast.after[j].refcount = rlast.before[i].refcount - 1
    /\ rlast.op = "lookup" /\ LiveEntries(rlast.before, rlast.cls) = {} =>
         rlast.func = "NULL"
    /\ last.op = "produce" /\ LiveEntries(RegistryOf(last.cur, last.obj.t), last.obj.t) = {} =>
         /\ last.res = -1
         /\ last.err = NotShareable(last.obj)

\* C11, witness: after two RegisterClass and two UnregisterClass of a type,
\* the second of which removed its entry, an object of the type has been
\* found not shareable.
C11_Witness ==
    /\ last.op = "produce" /\ last.obj.t = "custom" /\ last.res = -1
    /\ last.err = NotShareable(last.obj)
    /\ rlast.op = "unregister" /\ rlast.cls = "custom" /\ rlast.res = 1
    /\ \E i \in LiveEntries(rlast.before, "custom") :
         rlast.before[i].nreg = 2 /\ rlast.before[i].nunreg = 1
    /\ LiveEntries(registry, "custom") = {}

\* b as a scan that stops at entry number stop leaves it
RECURSIVE Scanned(_, _, _)
Scanned(b, stop, k) ==
    IF k > Len(b) THEN <<>>
    ELSE IF k < stop /\ ~LiveItem(b[k]) THEN Scanned(b, stop, k + 1)
         ELSE <<b[k]>> \o Scanned(b, stop, k + 1)

\* C18: a lookup returns the getdata of the first entry whose class is the
\* type itself and whose type has not been destroyed, NULL when there is
\* none (an entry of a base type or of a destroyed type at the same address
\* is not a match); the entries of destroyed types that come before the
\* match, or all of them when there is no match, are removed.
C18_ExactLookupEvicts ==
    rlast.op = "lookup" =>
        LET b == rlast.before
            m == LiveEntries(b, rlast.cls)
            first == IF m = {} THEN 0 ELSE Lowest(m)
        IN /\ rlast.func = IF first = 0 THEN "NULL" ELSE b[first].getdata
           /\ rlast.after = Scanned(b, IF first = 0 THEN Len(b) + 1 ELSE first, 1)
           /\ rlast.cls = "H2" /\ LiveEntries(b, "H2") = {} => rlast.func = "NULL"

\* C18, witness: a lookup of a registered type passed the entry of a
\* destroyed type, whose address a new type has, removed it and returned the
\* getdata of the entry after it.
C18_Witness ==
    /\ rlast.op = "lookup" /\ rlast.cls = "H2" /\ rlast.func = "_custom_shared"
    /\ Len(rlast.before) = 2
    /\ rlast.before[1].cls = "H1" /\ ~LiveItem(rlast.before[1])
    /\ types["H1"].alive /\ types["H1"].gen = 1
    /\ rlast.after = <<rlast.before[2]>>

\* a type made at the address of a destroyed, registered type was looked up:
\* nothing was found and the entry was removed
ReusedAddressLookedUp ==
    /\ rlast.op = "lookup" /\ rlast.cls = "H1" /\ types["H1"].gen = 1
    /\ rlast.func = "NULL"
    /\ Len(rlast.before) = 1 /\ rlast.before[1].cls = "H1"
    /\ rlast.after = <<>>

\* a type whose base is registered, and which is not, was looked up
SubtypeLookedUp ==
    /\ rlast.op = "lookup" /\ rlast.cls = "H2" /\ rlast.func = "NULL"
    /\ types["H2"].alive
    /\ LiveEntries(registry, Base("H2")) # {}

(***************************************************************************)
(* Properties of namespaces that are made and applied (SpecApply).         *)
(***************************************************************************)
\* C12: _PyXI_NamespaceFromNames of no names returns no namespace and leaves
\* an exception set for its caller.
C12_EmptyNamesReported ==
    last.op = "fromnames" /\ last.obj.v = <<0>> =>
        /\ last.res = -1
        /\ ns.st = "none"
        /\ last.err # NoExc

\* an empty list of names was given: nothing was returned and no exception
\* is set
EmptyListGivesNothing ==
    /\ last.op = "fromnames" /\ last.obj = Obj("list", <<0>>)
    /\ last.res = -1 /\ ns.st = "none" /\ last.err = NoExc

\* an empty dict of names was given: nothing was returned and the exception
\* set is the TypeError of PySequence_Size
EmptyDictGivesTypeError ==
    /\ last.op = "fromnames" /\ last.obj = Obj("dict", <<0>>)
    /\ last.res = -1 /\ ns.st = "none" /\ last.err.t = "TypeError"

\* the items among the first k of n that have the name nm
Named(n, k, nm) == {i \in 1..k : n.items[i].name = nm}

\* what nm is bound to once the first k items of n are applied to the empty
\* dict with the default dflt: the object its last item was made from
Applied(n, k, nm, dflt) ==
    IF Named(n, k, nm) = {} THEN NoObj
    ELSE LET i == CHOOSE j \in Named(n, k, nm) : \A l \in Named(n, k, nm) : l <= j
         IN IF n.items[i].data = 0 THEN dflt ELSE xid[n.items[i].data].src

\* C13: a fill fails only for a value that cannot be shared, never for a
\* name the source dict lacks; after a fill that succeeded the items without
\* a struct are those whose name the source dict lacks, and the others hold
\* a struct made from the value of their name; an apply that succeeds binds
\* the name of every item without a struct to the default and the name of
\* every item with a struct to an object equal to the one it was made from.
C13_AbsentNamesGetDefault ==
    /\ last.op = "fill" /\ last.res = -1 => \E v \in vals : last.err = NotShareable(v)
    /\ last.op = "fill" /\ last.res = 0 =>
         \A i \in 1..ns.len :
           LET value == last.obj.d[ns.items[i].name]
               h == ns.items[i].data
           IN IF value = NoObj THEN h = 0
              ELSE h # 0 /\ xid[h].src = value
    /\ last.op = "apply" /\ last.res = 0 =>
         \A nm \in NameSet : last.obj.d[nm] = Applied(ns, ns.len, nm, Dflt)

\* C13, witness: a namespace of two names, of which the source dict had the
\* second only, was applied: the first name is bound to the default and the
\* second to the bytes its struct was made from.
C13_Witness ==
    /\ last.op = "apply" /\ last.res = 0
    /\ ns.len = 2 /\ ns.items[1].name = "a" /\ ns.items[2].name = "b"
    /\ ns.items[1].data = 0 /\ ns.items[2].data # 0
    /\ last.obj.d["a"] = Dflt
    /\ last.obj.d["b"] = Obj("bytes", <<65, 0>>)

\* C17: an apply that fails stops at the item that failed: an exception is
\* set, the names of the items before it are bound as those items bind them
\* and no other name is bound.
C17_ApplyStopsAtFailure ==
    last.op = "apply" /\ last.res = -1 =>
        /\ last.at \in 1..ns.len
        /\ last.err # NoExc
        /\ \A nm \in NameSet : last.obj.d[nm] = Applied(ns, last.at - 1, nm, Dflt)

\* C17, witness: the apply of a namespace of two names failed at the second
\* item: the first name is bound and the second is not.
C17_Witness ==
    /\ last.op = "apply" /\ last.res = -1 /\ last.at = 2
    /\ ns.len = 2 /\ ns.items[1].name = "a" /\ ns.items[2].name = "b"
    /\ ns.items[1].data # 0 /\ ns.items[2].data # 0
    /\ last.obj.d["a"] = xid[ns.items[1].data].src
    /\ last.obj.d["b"] = NoObj

\* the apply failed at the first of two items: nothing is bound
ApplyFailedAtFirst ==
    /\ last.op = "apply" /\ last.res = -1 /\ last.at = 1 /\ ns.len = 2
    /\ last.obj.d = NoBindings

(***************************************************************************)
(* Properties of releases when the owner is gone (Spec).                   *)
(***************************************************************************)
\* C14: a release of a struct that has something to destroy and whose
\* interpreter no longer exists returns -1 with an exception set, runs
\* neither data->free nor the decref of data->obj and queues no pending call;
\* when the release is the one made to clear the value of a namespace item,
\* the caller of the clearing is left with an exception too, and nothing of
\* the struct is destroyed.
C14_OwnerGoneSurfaced ==
    /\ last.op \in {"release", "releasefree"}
       /\ xid[last.h].interpid \notin alive /\ HasPayload(xid[last.h]) =>
         /\ last.res = -1
         /\ last.err # NoExc
         /\ \A r \in xid[last.h].ranon : ~r.gone
         /\ \A i \in Interps : \A k \in 1..Len(pend[i]) : pend[i][k].arg # last.h
    /\ last.op = "clearvalue" /\ xid[last.h].interpid \notin alive
       /\ (HasPayload(xid[last.h]) \/ \E r \in xid[last.h].ranon : r.gone) =>
         /\ last.err # NoExc
         /\ \A r \in xid[last.h].ranon : ~r.gone

\* a release found the owner gone: -1, an exception, and the payload is as
\* it was
ReleaseFoundOwnerGone ==
    /\ last.op \in {"release", "releasefree"} /\ last.res = -1 /\ last.err # NoExc
    /\ xid[last.h].interpid \notin alive /\ HasPayload(xid[last.h])
    /\ xid[last.h].nfree = 0 /\ xid[last.h].ndecref = 0

\* the value of an item was cleared with the owner of its struct gone: the
\* payload was destroyed in the clearing interpreter and no exception is set
ClearValueHidOwnerGone ==
    /\ last.op = "clearvalue" /\ last.err = NoExc
    /\ \E r \in xid[last.h].ranon : r.gone /\ r.on = last.cur

(***************************************************************************)
(* Properties of deferred releases (SpecFair).                             *)
(***************************************************************************)
\* the last call was a release of h, made in an interpreter that is not the
\* owner, which exists, and it returned 0 with the payload still to destroy
DeferredRelease(h) ==
    /\ last.op \in {"release", "releasefree"} /\ last.h = h /\ last.res = 0
    /\ xid[h].interpid \in alive /\ xid[h].interpid # last.cur
    /\ HasPayload(xid[h])

\* the payload of h was destroyed in its owner
DestroyedOnOwner(h) ==
    /\ ~HasPayload(xid[h])
    /\ xid[h].ranon # {}
    /\ \A r \in xid[h].ranon : r.on = xid[h].interpid

\* every release that is deferred is followed by the destruction of the
\* payload in the owner, unless the owner is destroyed before
DeferredReleaseRuns ==
    \A h \in XidIds :
        DeferredRelease(h) ~> (DestroyedOnOwner(h) \/ xid[h].interpid \notin alive)

\* a step that is a deferred release adds a call to the owner's queue
DeferredReleaseQueues ==
    [][\A h \in XidIds :
         DeferredRelease(h)' => Len(pend'[xid[h].interpid]) = Len(pend[xid[h].interpid]) + 1]_vars

\* C15: a release made in another interpreter than the owner that returns 0
\* with something to destroy has queued a pending call on the owner, and,
\* the owner making its pending calls while it exists, data->free and the
\* decref of data->obj then run in the owner, once.
C15_DeferredReleaseRuns ==
    /\ DeferredReleaseRuns
    /\ DeferredReleaseQueues
    /\ [](\A h \in XidIds : xid[h].nfree <= 1 /\ xid[h].ndecref <= 1)

\* a release returned 0 with the owner's queue full: nothing was queued
ReleaseDroppedCall ==
    \E h \in XidIds :
        /\ DeferredRelease(h)
        /\ Len(pend[xid[h].interpid]) = MaxPending
        /\ xid[h].nrel = 2 /\ last.op = "releasefree"

(***************************************************************************)
(* Properties of a produce that fails (Spec, SpecRT).                      *)
(***************************************************************************)
\* the type of the object of the last produce has no entry
Unregistered == LiveEntries(RegistryOf(last.cur, last.obj.t), last.obj.t) = {}

\* a produce of an object whose type has no entry fails with
\* NotShareableError and leaves the struct as _xidata_init makes it
UnregisteredIsNotShareable ==
    last.op = "produce" /\ Unregistered =>
        /\ last.res = -1
        /\ last.err = NotShareable(last.obj)
        /\ last.x.interpid = -1 /\ IsNull(last.x.data) /\ ~last.x.free
        /\ last.x.obj = NoObj /\ last.x.new_object = "NULL"

\* a produce that fails in the getdata function of a built-in type leaves
\* the exception of that function, and the struct has no data and no object
ProducerFailureIsKept ==
    last.op = "produce" /\ last.res = -1 /\ last.obj.t \in BuiltinTypes =>
        /\ last.err # NoExc
        /\ last.err # NotShareable(last.obj)
        /\ IsNull(last.x.data) /\ last.x.obj = NoObj

\* C16: a produce of an object whose exact type has no getdata function
\* fails with NotShareableError and leaves the struct reset (interpid -1, no
\* data, no object, no new_object); a produce whose getdata function fails
\* leaves that function's exception, not NotShareableError, and a struct
\* without data and without object.
C16_ProduceFailureKinds == UnregisteredIsNotShareable /\ ProducerFailureIsKept

\* _bytes_shared failed in PyMem_RawMalloc: no exception is set and the
\* struct holds a reference to the object
FailedProduceKeepsObject ==
    /\ last.op = "produce" /\ last.res = -1 /\ last.obj.t = "bytes"
    /\ last.err = NoExc
    /\ IsNull(last.x.data) /\ last.x.obj = last.obj

\* _long_shared failed for an int that Py_ssize_t does not hold
OverflowIsKept ==
    /\ last.op = "produce" /\ last.res = -1 /\ last.obj.t = "int"
    /\ last.err = Exc("OverflowError", "try sending as bytes")
    /\ IsNull(last.x.data) /\ last.x.obj = NoObj

\* an object without getdata function was found not shareable
ListIsNotShareable ==
    /\ last.op = "produce" /\ last.res = -1 /\ last.obj.t = "list"
    /\ last.err = NotShareable(last.obj)

(***************************************************************************)
(* Properties of the error codes of a snapshot that is applied (SpecExc).  *)
(***************************************************************************)
\* the exception that stands for a code
Canonical(code) ==
    CASE code = _PyXI_ERR_OTHER -> ExcNone("RuntimeError")
      [] code = _PyXI_ERR_NO_MEMORY -> ExcNone("MemoryError")
      [] code = _PyXI_ERR_ALREADY_RUNNING ->
           Exc("RuntimeError", "interpreter already running")
      [] code = _PyXI_ERR_MAIN_NS_FAILURE ->
           Exc("RuntimeError", "failed to get __main__ namespace")
      [] code = _PyXI_ERR_APPLY_NS_FAILURE ->
           Exc("RuntimeError", "failed to apply namespace to __main__")

\* the codes that stand for an exception of their own
StructuredCodes ==
    {_PyXI_ERR_OTHER, _PyXI_ERR_NO_MEMORY, _PyXI_ERR_ALREADY_RUNNING,
     _PyXI_ERR_MAIN_NS_FAILURE, _PyXI_ERR_APPLY_NS_FAILURE}

\* the text of the exception made from the type name and message (ty, ms)
SnapshotText(ty, ms) ==
    IF ty # NullStr /\ ms # NullStr THEN <<ty[1] \o ": " \o ms[1]>>
    ELSE IF ty # NullStr THEN ty
    ELSE ms

\* C19: after a snapshot is applied an exception is set; for the code
\* NOT_SHAREABLE it is a NotShareableError, whatever the target type, with
\* no context; for the codes OTHER, NO_MEMORY, ALREADY_RUNNING,
\* MAIN_NS_FAILURE and APPLY_NS_FAILURE it is the exception that stands for
\* the code, whose context is an exception of the target type made from the
\* type name and message when the snapshot has one of them, and which has no
\* context otherwise.
C19_ErrorCodeMapping ==
    slast.op \in {"applyinfo", "applycaptured"} =>
        LET e == tstates[current[slast.t]].exc
            code == slast.info.code
            ty == slast.info.uncaught.type
            ms == slast.info.uncaught.msg
        IN /\ e # NoExc
           /\ code = _PyXI_ERR_NOT_SHAREABLE =>
                e.t = NotShareableError /\ e.ctx = <<>>
           /\ code \in StructuredCodes =>
                /\ e.t = Canonical(code).t
                /\ e.args = Canonical(code).args
                /\ e.ctx = IF ty = NullStr /\ ms = NullStr THEN <<>>
                           ELSE <<[t |-> TargetKind(slast.exctype),
                                   args |-> SnapshotText(ty, ms), ctx |-> <<>>]>>

\* a session that found its interpreter running main was applied after the
\* interpreter had stopped: no exception is set
AlreadyRunningAppliedLate ==
    /\ slast.op = "applycaptured" /\ slast.info.code = _PyXI_ERR_ALREADY_RUNNING
    /\ running_main[slast.info.interp] = 0
    /\ tstates[current[slast.t]].exc = NoExc

\* a snapshot with the code NOT_SHAREABLE and a message was applied with a
\* target type: the exception is a NotShareableError with the message
NotShareableApplied ==
    /\ slast.op = "applyinfo" /\ slast.info.code = _PyXI_ERR_NOT_SHAREABLE
    /\ slast.exctype = "RunFailedError" /\ slast.info.uncaught.msg = Str("bad input")
    /\ tstates[current[slast.t]].exc = Exc(NotShareableError, "bad input")

\* a snapshot with the code APPLY_NS_FAILURE, a type name and a message was
\* applied: the exception made from them is the context
CodeAppliedWithContext ==
    /\ slast.op = "applyinfo" /\ slast.info.code = _PyXI_ERR_APPLY_NS_FAILURE
    /\ slast.exctype = "RunFailedError"
    /\ tstates[current[slast.t]].exc.ctx
         = <<Exc("RunFailedError", "ValueIssue: bad input")>>

(***************************************************************************)
(* C20: the process-wide registry is serialized.                           *)
(***************************************************************************)
\* thread t is between its lock and its unlock
Holding(t) == rthreads[t].pc \in {"find", "update", "link", "unlock"}

\* thread t's call is on the process-wide registry
OnGlobal(t) == rthreads[t].pc # "idle" /\ HasMutex(WhichOf(t))

\* every statement of a call on the process-wide registry runs with the
\* mutex held by the caller
MutexHeld == \A t \in Threads : Holding(t) /\ OnGlobal(t) => mutex = t

\* the mutex is held by no thread that has returned or not yet locked
MutexReleased == mutex # 0 => Holding(mutex) /\ OnGlobal(mutex)

\* a call that is about to unlock leaves the process-wide registry, and
\* returns, what it would have had it run alone from where it took the lock
AsIfAlone ==
    \A t \in Threads :
       rthreads[t].pc = "unlock" /\ OnGlobal(t) =>
          /\ rlast.op = rthreads[t].op /\ rlast.cur = InterpOf(t)
          /\ rlast.cls = rthreads[t].cls
          /\ registry = rlast.after
          /\ rthreads[t].res = rlast.res
          /\ rthreads[t].func = rlast.func

NoLostCount ==
    \A i \in 1..Len(registry) :
       /\ registry[i].refcount > 0
       /\ registry[i].refcount = registry[i].nreg - registry[i].nunreg

NoDuplicateEntry ==
    \A i, j \in 1..Len(registry) : registry[i].cls = registry[j].cls => i = j

\* while an entry is half linked no other thread is in the list
NoHalfLinkedScan ==
    \A t, u \in Threads :
       /\ t # u /\ rthreads[t].pc = "link" /\ OnGlobal(t) /\ OnGlobal(u)
       => rthreads[u].pc = "lock"

\* C20: every register, unregister and lookup on the process-wide registry
\* runs from its scan to its return with the registry's mutex held by the
\* calling thread, the mutex is free again once the call has returned
\* (also when the allocation of a new entry failed), and whatever the
\* interleaving of the calls of threads running in parallel, each call
\* leaves the registry and returns what it would have had it run alone: no
\* reference count is lost, no type has two entries, and no thread scans
\* the list while an entry is half linked.
C20_RegistrySerialized ==
    /\ MutexHeld
    /\ MutexReleased
    /\ AsIfAlone
    /\ NoLostCount
    /\ NoDuplicateEntry
    /\ NoHalfLinkedScan

\* thread 1 has half linked a new entry for the type thread 2 waits to
\* register
C20_Witness ==
    /\ rthreads[1].pc = "link" /\ rthreads[1].cls = "custom"
    /\ rthreads[2].pc = "lock" /\ rthreads[2].op = "register"
    /\ rthreads[2].cls = "custom"
    /\ mutex = 1

\* a register whose allocation failed has returned and the mutex is free
FailedRegisterUnlocked ==
    \E t \in Threads :
       /\ rthreads[t].pc = "idle" /\ rthreads[t].op = "register"
       /\ rthreads[t].cls = "custom" /\ rthreads[t].res = -1
       /\ mutex = 0

\* the two threads registered the same type one after the other and the
\* entry counts both
BothRegistered ==
    /\ \A t \in Threads : /\ rthreads[t].pc = "idle" /\ rthreads[t].op = "register"
                           /\ rthreads[t].cls = "custom" /\ rthreads[t].res = 0
    /\ \E i \in 1..Len(registry) : registry[i].cls = "custom" /\ registry[i].refcount = 2

\* a thread waits for the mutex while the other scans
WaitsForScan ==
    \E t, u \in Threads :
       /\ rthreads[t].pc = "find" /\ OnGlobal(t)
       /\ rthreads[u].pc = "lock" /\ OnGlobal(u)

(***************************************************************************)
(* Properties of the two ways a release runs (Spec).                       *)
(***************************************************************************)
\* the step is a call of _PyCrossInterpreterData_Release or of
\* _PyCrossInterpreterData_ReleaseAndRawFree on h, which has something to
\* destroy and whose owner exists
ReleaseStep(h) ==
    /\ last'.op \in {"release", "releasefree"} /\ last'.h = h
    /\ HasPayload(xid[h])
    /\ xid[h].interpid \in alive

\* what _xidata_clear runs on x
Destroys(x) == [free |-> IF ~IsNull(x.data) /\ x.free THEN 1 ELSE 0,
                decref |-> IF x.obj # NoObj THEN 1 ELSE 0]

\* a release called in the owner has destroyed the payload and cleared
\* data->data and data->obj when it returns, and queues nothing
SyncReleaseRuns ==
    [][\A h \in XidIds :
         ReleaseStep(h) /\ last'.cur = xid[h].interpid =>
            /\ last'.res = 0
            /\ IsNull(xid'[h].data) /\ xid'[h].obj = NoObj
            /\ xid'[h].nfree = xid[h].nfree + Destroys(xid[h]).free
            /\ xid'[h].ndecref = xid[h].ndecref + Destroys(xid[h]).decref
            /\ pend' = pend]_vars

\* a release called in another interpreter returns 0 with nothing destroyed
\* and the struct as it was
DeferredReleaseReturns ==
    [][\A h \in XidIds :
         ReleaseStep(h) /\ last'.cur # xid[h].interpid =>
            /\ last'.res = 0
            /\ xid'[h].nfree = xid[h].nfree /\ xid'[h].ndecref = xid[h].ndecref
            /\ xid'[h].data = xid[h].data /\ xid'[h].obj = xid[h].obj
            /\ xid'[h].mem = xid[h].mem]_vars

\* and it adds one call for the struct at the end of the owner's queue
DeferredReleasePosts ==
    [][\A h \in XidIds :
         ReleaseStep(h) /\ last'.cur # xid[h].interpid =>
            pend' = [pend EXCEPT ![xid[h].interpid] =
                        Append(@, PendingCall(h, last'.op = "releasefree"))]]_vars

\* while the owner exists the payload is destroyed only by a step the owner
\* makes: a release called in it, or one of its pending calls
PopulatedUntilOwnerRuns ==
    [][\A h \in XidIds :
         HasPayload(xid[h]) /\ ~HasPayload(xid'[h]) /\ xid[h].interpid \in alive =>
            last'.cur = xid[h].interpid]_vars

\* C21: a release called in the owner of a struct that has something to
\* destroy has run data->free and the decref of data->obj and cleared both
\* fields when it returns; called in another interpreter, the owner
\* existing, it returns 0 without running them, has added exactly one call
\* to the owner's queue of pending calls, and the struct keeps its payload
\* until the owner makes that call.
C21_SyncOrDeferredRelease ==
    /\ SyncReleaseRuns
    /\ DeferredReleaseReturns
    /\ DeferredReleasePosts
    /\ PopulatedUntilOwnerRuns

\* a release called in the owner destroyed data and object at once
ReleasedInOwner ==
    \E h \in XidIds :
        /\ last.op = "release" /\ last.h = h /\ last.cur = xid[h].interpid
        /\ last.res = 0 /\ xid[h].nfree = 1 /\ xid[h].ndecref = 1 /\ xid[h].nrel = 1

\* a release called in another interpreter found the owner's queue full:
\* it returned 0, the payload is there and its call is not in the queue
ReleaseNotPosted ==
    \E h \in XidIds :
        /\ DeferredRelease(h) /\ last.op = "releasefree"
        /\ \A k \in 1..Len(pend[xid[h].interpid]) : ~pend[xid[h].interpid][k].rawfree

(***************************************************************************)
(* Properties of the storage of the structs of namespace items (SpecNs).   *)
(***************************************************************************)
\* the structs that _sharednsitem_set_value allocated
ItemStructs == {h \in XidIds : xid[h].mem # "none" /\ ~xid[h].direct}

NothingPending == \A i \in Interps : pend[i] = <<>>

\* the struct was released in its owner and its storage freed after that
FreedOnce(h) == xid[h].mem = "freed" /\ ~HasPayload(xid[h]) /\ ~xid[h].fault

\* the items whose values a call cleared in the owner of their structs have
\* their storage freed when the call returns
ClearedInOwnerIsFreed ==
    /\ last.op = "freens" =>
          \A h \in last.made : xid[h].interpid = last.cur => FreedOnce(h)
    /\ last.op = "fill" /\ last.res = -1 => \A h \in last.made : FreedOnce(h)

\* the pending call of an item's struct frees its storage
PendingCallFrees == last.op = "pending" => FreedOnce(last.h)

\* once the namespace is freed and no call is pending, none of its structs
\* is allocated (every interpreter existing still)
NoStorageRemains ==
    ns.st = "freed" /\ NothingPending /\ alive = Interps =>
        \A h \in ItemStructs : xid[h].mem = "freed"

\* C22: the value of a namespace item is released with the call that also
\* frees the struct: the storage _sharednsitem_set_value allocated is freed
\* once, after data->free and the decref ran (in the owner at once, else by
\* the pending call) and never before; when the namespace is freed and
\* every pending call has run, no struct of it is still allocated.
C22_ItemStorageFreed ==
    /\ \A h \in ItemStructs : ~xid[h].fault
    /\ ClearedInOwnerIsFreed
    /\ PendingCallFrees
    /\ NoStorageRemains

\* a namespace filled and freed in the same interpreter: the payload of its
\* struct is destroyed and the struct is still allocated
ItemStorageLeaked ==
    /\ last.op = "freens" /\ ns.st = "freed" /\ NothingPending
    /\ \E h \in ItemStructs :
          /\ xid[h].mem = "heap" /\ ~HasPayload(xid[h])
          /\ xid[h].ranon # {} /\ xid[h].interpid = last.cur

(***************************************************************************)
(* Properties of _release_xid_data when the owner is gone (SpecClear).     *)
(***************************************************************************)
\* the step is thread t's _release_xid_data of h, whose owner does not exist
\* and which has something to destroy
OwnerGoneStep(t, h) ==
    /\ last'.op = "relxid" /\ last'.h = h /\ last'.cur = InterpOf(t)
    /\ xid[h].interpid \notin alive
    /\ HasPayload(xid[h])

ReleaseCall(h) == last'.op \in {"release", "releasefree"} /\ last'.h = h

\* The call returned 0 at once: no exception, nothing destroyed, nothing
\* queued, and the struct freed when that was asked, else left with no data
\* and no object.
ReturnedAtOnce(h) ==
    /\ last'.res = 0 /\ last'.err = NoExc
    /\ pend' = pend
    /\ xid'[h].nfree = xid[h].nfree /\ xid'[h].ndecref = xid[h].ndecref
    /\ ~xid'[h].fault
    /\ IF last'.op = "releasefree" THEN xid'[h].mem = "freed"
       ELSE IsNull(xid'[h].data) /\ xid'[h].obj = NoObj /\ xid'[h].mem = xid[h].mem

\* C24, as stated: a release of a struct whose data is NULL and whose object
\* is unset, or which has no free function, clears the struct and returns 0
\* at once without looking up the owner and without a pending call, also
\* when the owner no longer exists.
C24_NoDestructorReturnsAtOnce ==
    [][\A h \in XidIds :
         /\ ReleaseCall(h)
         /\ (IsNull(xid[h].data) /\ xid[h].obj = NoObj) \/ ~xid[h].free
         => ReturnedAtOnce(h)]_vars

\* C24, amended: a release of a struct whose object is unset and which has
\* either no data or no free function clears the struct and returns 0 at
\* once without looking up the owner and without a pending call, also when
\* the owner no longer exists.
C24_NothingToReleaseReturnsAtOnce ==
    [][\A h \in XidIds :
         /\ ReleaseCall(h)
         /\ (IsNull(xid[h].data) \/ ~xid[h].free) /\ xid[h].obj = NoObj
         => ReturnedAtOnce(h)]_vars

\* C24, witness: the struct of an int, which has data and no free function,
\* was released from the other interpreter after its owner was destroyed,
\* and the release returned 0.
C24_Witness ==
    /\ last.op = "release" /\ last.res = 0 /\ last.err = NoExc
    /\ xid[last.h].src.t = "int" /\ xid[last.h].nrel = 1
    /\ xid[last.h].interpid \notin alive /\ last.cur # xid[last.h].interpid
    /\ IsNull(xid[last.h].data)

\* a struct with an object and no free function was released with its owner
\* gone: the release failed
KeptObjectNeedsOwner ==
    /\ last.op = "release" /\ last.res = -1
    /\ ~xid[last.h].free /\ xid[last.h].obj # NoObj
    /\ xid[last.h].interpid \notin alive

(***************************************************************************)
(* Properties of the order in which a namespace is freed (SpecNsFree).     *)
(***************************************************************************)
\* a call for h is in the queue of its owner
Posted(h) ==
    /\ xid[h].interpid \in Interps
    /\ \E k \in 1..Len(pend[xid[h].interpid]) : pend[xid[h].interpid][k].arg = h

\* when _PyXI_FreeNamespace returns, the array is freed and the payload of
\* every struct the items had is destroyed or has a call queued on its owner
ReleasedOrPosted ==
    last.op = "freens" =>
        /\ ns.st = "freed" /\ ns.items = <<>>
        /\ \A h \in last.made : ~HasPayload(xid[h]) \/ Posted(h)

\* no call has read or written a struct whose storage was freed
NoUseAfterFree == \A h \in XidIds : ~xid[h].fault

\* C25: when a namespace is freed, the release of the struct of every item
\* has run (in the owner) or is queued as a pending call of the owner
\* before the array of items and the namespace are freed, and no pending
\* call that runs later reads or writes storage that was freed with the
\* namespace or before.
C25_FreeAfterReleases == ReleasedOrPosted /\ NoUseAfterFree

\* a namespace was freed from another interpreter than the owner of its
\* struct, whose queue was full: the struct keeps its payload and no call
\* for it is queued
FreedWithoutRelease ==
    /\ last.op = "freens" /\ ns.st = "freed"
    /\ \E h \in last.made :
          /\ HasPayload(xid[h]) /\ ~Posted(h)
          /\ xid[h].interpid \in alive /\ xid[h].interpid # last.cur
          /\ Len(pend[xid[h].interpid]) = MaxPending

\* a namespace was freed from another interpreter and the call for its
\* struct is queued on the owner
FreedWithReleasePosted ==
    /\ last.op = "freens" /\ ns.st = "freed"
    /\ \E h \in last.made : HasPayload(xid[h]) /\ Posted(h) /\ xid[h].interpid # last.cur

(***************************************************************************)
(* _PyXI_Enter with an nsupdates of up to two keys whose conversion fails  *)
(* at any item: by a value that is not shareable, or by an allocation that *)
(* fails (of the names, of an item's struct, of an item's block).          *)
(***************************************************************************)
\* the nsupdates: dicts of up to two keys, and an object that is no dict
ConvUpdates ==
    {NsObj("dict", [nm \in NameSet |-> IF nm = "a" THEN v ELSE u]) :
        v \in vals \cup {NoObj}, u \in vals \cup {NoObj}}
    \cup {NsObj("list", EmptyBindings)}

\* the keys of nsupdates whose value gets a block allocated
BlockItems(nsupdates) ==
    {k \in 1..Needs(nsupdates) : nsupdates.d[Keys(nsupdates.d)[k]].t \in Allocating}

ConvFaults(nsupdates) ==
    FaultsOf(nsupdates)
    \cup {EnterFaults(Inject("data", k), Builtin, 0, "none", NoApplyFault, "none") :
            k \in BlockItems(nsupdates)}
    \cup (IF Needs(nsupdates) > 0
          THEN {EnterFaults(NoInject, Builtin, 1, "none", NoApplyFault, "none")}
          ELSE {})

NextConv ==
    \/ \E s \in Sessions, interp \in Interps, nsupdates \in ConvUpdates :
         \E f \in ConvFaults(nsupdates) : Enter(1, s, interp, nsupdates, f)
    \/ \E s \in Sessions : Exit(1, s, "none")
    \/ \E s \in Sessions : ApplyCapturedException(1, s, "RunFailedError")
    \/ Handle(1)
    \/ \E i \in Interps : RunPending(i)

SpecConv == InitSession /\ [][NextConv]_vars

\* The step is a _PyXI_Enter whose conversion of nsupdates failed.  Only a
\* session call writes slast, and no call leaves it as it found it.
FailedConversion == slast' # slast /\ slast'.op = "enter" /\ slast'.convfail

\* the thread state of the calling thread
Caller == current[slast'.t]

EnterReturnsFailure == slast'.res = -1

ErrorStaysPending ==
    /\ tstates'[Caller].exc # NoExc
    /\ tstates' = [tstates EXCEPT ![Caller].exc = tstates'[Caller].exc]

SessionStaysIdle ==
    /\ sessions' = sessions
    /\ sessions'[slast'.s].by = 0
    /\ sessions'[slast'.s].exc = <<>>

ContextUnchanged ==
    /\ current' = current
    /\ \A k \in DOMAIN tstates : tstates'[k].interp = tstates[k].interp
    /\ slast'.created = 0

FlagUntouched == running_main' = running_main /\ main_dict' = main_dict

\* every struct the conversion took holds nothing afterwards, and no
\* release of it is left to be run
NoHandleUnreleased ==
    /\ \A h \in XidIds : xid'[h] # xid[h] => ~HasPayload(xid'[h])
    /\ pend' = pend

\* C26: when the conversion of nsupdates fails, _PyXI_Enter returns -1
\* with the error still pending in the caller, and nothing else has
\* changed: the session is idle and has captured nothing, the thread's
\* thread state is the one it had, no thread state was created, the target
\* interpreter's running flag is as it was, and no struct filled during
\* the conversion still holds something to release.
C26_FailedConversionChangesNothing ==
    [][FailedConversion =>
         /\ EnterReturnsFailure
         /\ ErrorStaysPending
         /\ SessionStaysIdle
         /\ ContextUnchanged
         /\ FlagUntouched
         /\ NoHandleUnreleased]_vars

\* the same for the conversions that fail with an exception set
C26_RaisingConversionChangesNothing ==
    [][FailedConversion /\ ~slast'.switched =>
         /\ EnterReturnsFailure
         /\ ErrorStaysPending
         /\ SessionStaysIdle
         /\ ContextUnchanged
         /\ FlagUntouched
         /\ NoHandleUnreleased]_vars

\* a conversion failed without an exception and _PyXI_Enter went on to
\* enter the session
EnteredAfterFailedConversion ==
    /\ slast.op = "enter" /\ slast.convfail /\ slast.res = 0
    /\ sessions[slast.s].by = slast.t
    /\ running_main[slast.interp] # 0

\* a conversion failed at its second item with an exception, after the
\* first item had been filled
FailedAtSecondItem ==
    /\ slast.op = "enter" /\ slast.convfail /\ slast.res = -1
    /\ \E h \in XidIds : xid[h].mem = "heap" /\ ~HasPayload(xid[h]) /\ xid[h].ndecref > 0

(***************************************************************************)
(* _PyXI_Enter failing after the switch: at marking the interpreter, at    *)
(* the dict of __main__, at applying the namespace; with the copy of the   *)
(* pending exception failing or not.                                       *)
(***************************************************************************)
\* the failures of a copy that are injected
CopyFaults == {"none", "name_format", "msg_copy"}

UnwindFaults(nsupdates) ==
    {NoFaults}
    \cup {EnterFaults(NoInject, Builtin, 0, m, NoApplyFault, c) :
            m \in {"module", "dict"}, c \in CopyFaults}
    \cup {EnterFaults(NoInject, Builtin, 0, "none", Inject("value", k), c) :
            k \in 1..Needs(nsupdates), c \in CopyFaults}

NextUnwind ==
    \/ \E s \in Sessions, interp \in Interps, nsupdates \in NsUpdates :
         \E f \in UnwindFaults(nsupdates) : Enter(1, s, interp, nsupdates, f)
    \/ \E s \in Sessions : Exit(1, s, "none")
    \/ \E s \in Sessions : ApplyCapturedException(1, s, "RunFailedError")
    \/ Handle(1)
    \/ \E i \in Interps : RunPending(i)

SpecUnwind == InitSession /\ [][NextUnwind]_vars

\* The step is a _PyXI_Enter that failed at stage st, after it had entered
\* the session and marked the interpreter as running.
EnterFailedAt(st) == slast' # slast /\ slast'.op = "enter" /\ slast'.stage = st

\* the code _PyXI_Enter gives to a failure of stage st
CodeOf(st) ==
    IF st = "main" THEN _PyXI_ERR_MAIN_NS_FAILURE ELSE _PyXI_ERR_APPLY_NS_FAILURE

\* what the session of the call holds as captured after the step
Captured == sessions'[slast'.s].exc

\* the session has captured the code, and did so in the target interpreter:
\* the snapshot names it, and nothing is pending in the caller
CapturedInTarget(st) ==
    /\ Captured # <<>>
    /\ Captured[1].code = CodeOf(st)
    /\ Captured[1].interp = slast'.interp
    /\ tstates'[current'[slast'.t]].exc = NoExc

\* the thread is back on the thread state it had, no thread state made by
\* the call is left, and the interpreter is not marked
Unwound ==
    /\ slast'.res = -1
    /\ running_main'[slast'.interp] = 0
    /\ running_main[slast'.interp] = 0
    /\ current' = current
    /\ \A k \in DOMAIN tstates : tstates'[k].interp = tstates[k].interp
    /\ ~sessions'[slast'.s].running
    /\ sessions'[slast'.s].init_tstate = 0

\* C27: when getting the dict of the target's __main__ or applying the
\* namespace fails, _PyXI_Enter returns -1 with the code of that step
\* (MAIN_NS_FAILURE, APPLY_NS_FAILURE) captured in the session, the running
\* flag it set is cleared, the caller's thread state is current again, and
\* the capture was made before the switch back.
C27_PostSwitchFailureUnwinds ==
    [][\A st \in {"main", "apply"} :
         EnterFailedAt(st) => Unwound /\ CapturedInTarget(st)]_vars

\* the same when the copy of the exception's type name and message succeeds
C27_UnwindsWhenCopied ==
    [][\A st \in {"main", "apply"} :
         EnterFailedAt(st) /\ slast'.fault = "none" => Unwound /\ CapturedInTarget(st)]_vars

\* the unwinding alone, whatever happens to the copy
C27_AlwaysUnwinds ==
    [][\A st \in {"main", "apply"} : EnterFailedAt(st) => Unwound]_vars

\* _PyXI_Enter failed at applying the namespace, from a thread state of
\* its own, and the session has captured nothing
ApplyFailureNotCaptured ==
    /\ slast.op = "enter" /\ slast.stage = "apply" /\ slast.res = -1
    /\ slast.created # 0
    /\ sessions[slast.s].exc = <<>>

\* _PyXI_Enter failed at the __main__ module and the session has the code
MainFailureCaptured ==
    /\ slast.op = "enter" /\ slast.stage = "main" /\ slast.res = -1
    /\ sessions[slast.s].exc # <<>>
    /\ sessions[slast.s].exc[1].code = _PyXI_ERR_MAIN_NS_FAILURE

\* the override code that the error label of _PyXI_Enter sets for a stage
OverrideOf(st) ==
    IF st = "running" THEN _PyXI_ERR_ALREADY_RUNNING ELSE CodeOf(st)

OverrideStages == {"running", "main", "apply"}

OverrideCleared == sessions'[slast'.s].exc_override = "NULL"

\* the captured exception is the code alone
CodeAlone(st) ==
    Captured = <<XIExcInfo(slast'.interp, OverrideOf(st), ExcInfo(NullStr, NullStr))>>

\* the captured exception is the code with the type name and the message of
\* the exception that was pending
CodeWithSnapshot(st) ==
    Captured = <<XIExcInfo(slast'.interp, OverrideOf(st),
                           ExcInfo(Str(slast'.pending.t),
                                   Str(PyObject_Str(slast'.pending))))>>

AlreadyRunningCodeAlone ==
    /\ slast.op = "enter" /\ slast.stage = "running"
    /\ sessions[slast.s].exc =
         <<XIExcInfo(slast.interp, _PyXI_ERR_ALREADY_RUNNING, ExcInfo(NullStr, NullStr))>>

(***************************************************************************)
(* Structs whose new_object is unset.  The caller of a failed              *)
(* _PyObject_GetCrossInterpreterData still has the struct it passed, and   *)
(* may hand it to _PyCrossInterpreterData_NewObject and to                 *)
(* _PyCrossInterpreterData_Release.                                        *)
(***************************************************************************)
\* _PyObject_GetCrossInterpreterData on a struct the caller keeps whatever
\* the result is
ProduceInto(v, cur, cp) ==
    /\ FreeXids(World(xid, pend, NoExc)) # {}
    /\ Cardinality({g \in XidIds : xid[g].direct}) < MaxDirect
    /\ LET h == Lowest(FreeXids(World(xid, pend, NoExc)))
           w0 == World([xid EXCEPT ![h] = [XidBlank EXCEPT !.mem = "heap", !.born = cur,
                                                       !.src = v, !.direct = TRUE]],
                       pend, NoExc)
       IN \E r \in {_PyObject_GetCrossInterpreterData(w0, v, h, cur, FALSE, cp)} :
          /\ xid' = [r.w.xid EXCEPT ![h].held = (r.res = 0)]
          /\ pend' = r.w.pend
          /\ last' = Last("produce", h, cur, r.res, r.w.err, v, r.w.xid[h], 0, {})
    /\ UNCHANGED <<alive, registry, regvars, vals, ns, sessvars>>

\* a struct left by a produce that failed
Unfilled(x) == x.direct /\ ~x.held /\ x.mem = "heap"

\* data->new_object(data) with new_object NULL is a call of a null function
\* pointer: the process ends with a fault or, where something is mapped
\* at that address, the call returns whatever that leaves
NullCallOutcomes == {"fault", "returns"}

\* _PyCrossInterpreterData_NewObject on a struct whose new_object is NULL
NewObjectUnset(h, cur, out) ==
    /\ Unfilled(xid[h])
    /\ xid[h].new_object = "NULL"
    /\ xid[h].nnew < 1
    /\ xid' = [xid EXCEPT ![h].nnew = @ + 1]
    /\ last' = Last("newobject", h, cur, -1,
                    IF out = "fault" THEN NullDereference ELSE NoExc,
                    NoObj, xid[h], 0, {})
    /\ UNCHANGED <<alive, registry, regvars, vals, pend, ns, sessvars>>

\* _PyCrossInterpreterData_Release on a struct left by a failed produce
ReleaseUnfilled(h, cur) ==
    /\ Unfilled(xid[h])
    /\ xid[h].nrel < 1
    /\ \E r \in {_PyCrossInterpreterData_Release(World(xid, pend, NoExc), h, cur)} :
          /\ xid' = [r.w.xid EXCEPT ![h].nrel = @ + 1, ![h].relfrom = @ \cup {cur}]
          /\ pend' = r.w.pend
          /\ last' = Last("release", h, cur, r.res, r.w.err, NoObj, xid[h], 0, {})
    /\ UNCHANGED <<alive, registry, regvars, vals, ns, sessvars>>

NextInvalid ==
    \/ \E v \in vals, cur \in alive : \E cp \in Behaviours(v) : ProduceInto(v, cur, cp)
    \/ \E h \in XidIds, cur \in alive, out \in NullCallOutcomes : NewObjectUnset(h, cur, out)
    \/ \E h \in XidIds, cur \in alive : ReleaseUnfilled(h, cur)
    \/ \E h \in XidIds, cur \in alive : NewObject(h, cur)
    \/ \E h \in XidIds, cur \in alive : Release(h, cur)
    \/ \E i \in Interps : RunPending(i)
    \/ DestroyAny

SpecInvalid == Init /\ [][NextInvalid]_vars

\* the call failed and told why: it returned its failure value with an
\* exception set, and the process did not end in it
StructuredError == last.res = -1 /\ last.err \notin {NoExc, NullDereference}

\* the last call was op, on a struct whose new_object was unset
OnUnset(op) == last.op = op /\ last.x.mem = "heap" /\ last.x.new_object = "NULL"

\* a produce that returns 0 has filled in new_object and the owner's id
ProduceValidates ==
    last.op = "produce" /\ last.res = 0 =>
        xid[last.h].new_object # "NULL" /\ xid[last.h].interpid >= 0

\* when getdata returned 0 without setting new_object, produce fails with
\* the SystemError of _check_xidata, and what getdata put in the struct has
\* been released: here, in the owner
ProduceReleasesInvalid ==
    last.op = "produce" /\ last.res # 0 /\ last.x.interpid >= 0
        /\ last.x.new_object = "NULL" =>
        /\ last.err = Exc("SystemError", "missing new_object func")
        /\ ~HasPayload(last.x)
        /\ last.x.ranon \subseteq {[on |-> last.cur, gone |-> FALSE]}
        /\ \A i \in Interps : \A k \in DOMAIN pend[i] : pend[i][k].arg # last.h

NewObjectRejectsUnset == OnUnset("newobject") => StructuredError

ReleaseRejectsUnset ==
    last.op = "release" /\ Unfilled(last.x) /\ last.x.new_object = "NULL" =>
        StructuredError

\* C29: a struct whose new_object is unset is invalid: the validation at
\* the end of produce, _PyCrossInterpreterData_NewObject and
\* _PyCrossInterpreterData_Release fail on it with an exception set, and
\* neither succeed nor fault.  Produce never returns 0 with new_object
\* unset or a negative interpid, and releases what getdata allocated
\* before it fails.
C29_InvalidHandlesRejected ==
    /\ ProduceValidates
    /\ ProduceReleasesInvalid
    /\ NewObjectRejectsUnset
    /\ ReleaseRejectsUnset

\* produce failed at _check_xidata after getdata had allocated a block
ProduceFailedValidation ==
    /\ last.op = "produce" /\ last.res = -1
    /\ last.err = Exc("SystemError", "missing new_object func")
    /\ last.x.nfree = 1

\* _PyCrossInterpreterData_NewObject was called on a struct that a failed
\* produce had reset
NewObjectOnResetStruct ==
    /\ OnUnset("newobject") /\ last.x.interpid = -1
    /\ ~StructuredError

\* _PyCrossInterpreterData_Release returned 0 on a struct that a failed
\* produce had reset
ReleaseOfResetStructSucceeds ==
    /\ last.op = "release" /\ Unfilled(last.x) /\ last.x.new_object = "NULL"
    /\ last.res = 0 /\ last.err = NoExc

\* the step is a _PyXI_FreeNamespace of an initialized namespace, which
\* calls _sharedns_has_xidata on the namespace as it is before the step
ChecksXidata == ns.st = "live" /\ ns'.st = "freed" /\ last'.op = "freens"

\* the items of the namespace that have a struct
WithHandle == {i \in 1..ns.len : ns.items[i].data # 0}

SameOwner == \A i, j \in WithHandle : xid[ns.items[i].data].interpid
                                        = xid[ns.items[j].data].interpid

CompleteOnlyIfAll ==
    [][ChecksXidata /\ last'.res = HAS_COMPLETE_DATA =>
         WithHandle = 1..ns.len /\ SameOwner]_vars

NoDataOnlyIfNone ==
    [][ChecksXidata /\ last'.res = 0 => WithHandle = {}]_vars

\* C30: _sharedns_has_xidata reports complete data only if every item of
\* the namespace has a struct and all the structs have the same owner, and
\* reports no data only if no item has a struct.
C30_CompleteDataCheck ==
    [][ChecksXidata =>
         /\ last'.res = HAS_COMPLETE_DATA => WithHandle = 1..ns.len /\ SameOwner
         /\ last'.res = 0 => WithHandle = {}]_vars

\* a namespace whose second item had a struct was freed, and
\* _sharedns_has_xidata had reported no data
NoDataReportedWithHandle ==
    /\ last.op = "freens" /\ ns.st = "freed"
    /\ last.res = 0
    /\ last.made # {}

\* a namespace of two items with structs was reported complete, with their
\* owner
CompleteReported ==
    /\ last.op = "freens" /\ ns.st = "freed"
    /\ last.res = HAS_COMPLETE_DATA
    /\ Cardinality(last.made) = 2
    /\ last.at = last.cur

\* a namespace whose first item alone had a struct was reported partial
PartialReported ==
    /\ last.op = "freens" /\ ns.st = "freed"
    /\ last.res = HAS_PARTIAL_DATA
    /\ Cardinality(last.made) = 1
    /\ last.at = -1

(***************************************************************************)
(* The shape of a namespace: made from names (the copy of any name may     *)
(* fail), filled (any item may fail), applied, and freed.                  *)
(***************************************************************************)
NextShape ==
    \/ \E names \in NameLists, kind \in {"list", "dict"}, failat \in 0..MaxNames :
         failat <= Len(names) /\ NamespaceFromNames(names, kind, failat)
    \/ \E bind \in [NameSet -> vals \cup {NoObj}], cur \in alive :
         \E inj \in Injections(ns, bind) : FillNamespaceFromDict(bind, cur, inj, Builtin)
    \/ \E cur \in alive, af \in ApplyFaults(ns) : ApplyNamespace(cur, Dflt, af)
    \/ \E cur \in alive : FreeNamespace(cur)

SpecShape == InitApply /\ [][NextShape]_vars

\* ns->len == 0 and ns->items == NULL
Uninitialized == ns.len = 0 /\ ns.items = <<>>

\* every item of the array holds a name of its own
EveryItemNamed ==
    /\ ns.len >= 1
    /\ Len(ns.items) = ns.len
    /\ \A i \in 1..ns.len : _sharednsitem_is_initialized(ns.items[i])

HandleOnlyWithName ==
    \A i \in DOMAIN ns.items :
        ns.items[i].data # 0 => _sharednsitem_is_initialized(ns.items[i])

\* two items, of one name or of two, never have the same struct
IndependentItems ==
    \A i, j \in DOMAIN ns.items :
        i # j /\ ns.items[i].data # 0 => ns.items[i].data # ns.items[j].data

\* a from_names that failed at the copy of a name has given no namespace
\* and has freed every name it had copied
FailedFromNamesFreesNames ==
    last.op = "fromnames" /\ last.at # 0 =>
        /\ last.res = -1
        /\ ns.st = "none" /\ Uninitialized
        /\ ns.lost = 0

\* C31: a namespace is either uninitialized (length 0, no item array) or
\* has at least one item and every item holds a name of its own; an item
\* holds a struct only if it holds a name; items of the same name are
\* independent; and a from_names that fails at name i frees the names
\* copied before it and leaves no initialized namespace.
C31_NamespaceShape ==
    /\ Uninitialized \/ EveryItemNamed
    /\ ns.st = "live" => EveryItemNamed
    /\ ns.st \in {"none", "freed"} => Uninitialized
    /\ HandleOnlyWithName
    /\ IndependentItems
    /\ ns.lost = 0
    /\ FailedFromNamesFreesNames

\* from_names failed at its second name, after the first had been copied
C31_Witness ==
    /\ last.op = "fromnames" /\ last.at = 2 /\ last.res = -1
    /\ ns.st = "none" /\ ns.lost = 0

\* a namespace of two items of the same name, each with a struct of its own
DuplicateNamesFilled ==
    /\ ns.st = "live" /\ ns.len = 2
    /\ ns.items[1].name = ns.items[2].name
    /\ ns.items[1].data # 0 /\ ns.items[2].data # 0
    /\ ns.items[1].data # ns.items[2].data

\* a namespace that had structs has been freed
FilledNamespaceFreed ==
    /\ last.op = "freens" /\ last.made # {}
    /\ ns.st = "freed" /\ Uninitialized

(***************************************************************************)
(* The specification of the registries in memory: interpreters are         *)
(* initialized and finalized (_PyXI_Init, _PyXI_Fini), and while an        *)
(* interpreter is initialized its threads register, unregister and look    *)
(* up types; heap types are destroyed and made anew.                       *)
(***************************************************************************)
RECURSIVE Walk(_, _, _)
\* the addresses met by following next from entry e on, n of them at most
Walk(L, e, n) ==
    IF e = 0 \/ n = 0 THEN <<>> ELSE <<e>> \o Walk(L, L.item[e].next, n - 1)

\* the list of a registry: the addresses of its entries, head first
ListOf(L, which, cur) == Walk(L, RegistryAt(L, which, cur).head, MaxItems + 1)

\* interpreter cur may use the registry of cls: both were initialized
Started(cur, cls) ==
    RegistryAt(links, _get_xidregistry_for_type(cls), cur).initialized

LinkLast(op, cur, cls, res, func, err) ==
    RLast(op, cur, cls, res, func, err, <<>>, <<>>)

\* the list of the registry of cls before a call and after it
CallLast(op, cur, cls, res, func, err, L) ==
    RLast(op, cur, cls, res, func, err,
          ListOf(links, _get_xidregistry_for_type(cls), cur),
          ListOf(L, _get_xidregistry_for_type(cls), cur))

FreeItems == {a \in ItemAddrs : ~links.item[a].used}

XIInit(interp, exctype) ==
    \* Py_FatalError ends the process when a built-in type cannot be registered
    /\ _Py_IsMainInterpreter(interp) /\ ~links.global.initialized
         => Cardinality(FreeItems) >= Len(BuiltinGetdata)
    /\ \E r \in {_PyXI_Init(links, interp, exctype)} :
         /\ links' = r.L
         /\ rlast' = LinkLast("init", interp, "", IF exctype THEN 0 ELSE -1, "NULL", NoExc)
    /\ last' = Last("init", 0, interp, 0, NoExc, NoObj, XidBlank, 0, {})
    /\ UNCHANGED <<alive, registry, vals, xid, pend, ns, sessvars, types, iregistry,
                   mutex, rthreads>>

XIFini(interp) ==
    /\ links' = _PyXI_Fini(links, interp)
    /\ rlast' = LinkLast("fini", interp, "", 0, "NULL", NoExc)
    /\ last' = Last("fini", 0, interp, 0, NoExc, NoObj, XidBlank, 0, {})
    /\ UNCHANGED <<alive, registry, vals, xid, pend, ns, sessvars, types, iregistry,
                   mutex, rthreads>>

LinkRegister(cur, cls, getdata, fail) ==
    /\ Started(cur, cls)
    /\ IsHeapType(cls) => types[cls].alive
    /\ \E f \in {find_type_linked(links, _get_xidregistry_for_type(cls), cur, cls)} :
         f.found # 0 => f.L.item[f.found].refcount < MaxRefs
    /\ \E r \in {RegisterClass_linked(links, cur, cls, getdata, fail)} :
         /\ links' = r.L
         /\ rlast' = CallLast("register", cur, cls, r.res, getdata, r.err, r.L)
         /\ last' = Last("register", 0, cur, r.res, r.err, NoObj, XidBlank, 0, {})
    /\ UNCHANGED <<alive, registry, vals, xid, pend, ns, sessvars, types, iregistry,
                   mutex, rthreads>>

LinkUnregister(cur, cls) ==
    /\ Started(cur, cls)
    /\ IsHeapType(cls) => types[cls].alive
    /\ \E r \in {UnregisterClass_linked(links, cur, cls)} :
         /\ links' = r.L
         /\ rlast' = CallLast("unregister", cur, cls, r.res, "NULL", NoExc, r.L)
         /\ last' = Last("unregister", 0, cur, r.res, NoExc, NoObj, XidBlank, 0, {})
    /\ UNCHANGED <<alive, registry, vals, xid, pend, ns, sessvars, types, iregistry,
                   mutex, rthreads>>

LinkLookup(cur, cls) ==
    /\ Started(cur, cls)
    /\ IsHeapType(cls) => types[cls].alive
    /\ \E r \in {lookup_linked(links, cur, cls)} :
         /\ links' = r.L
         /\ rlast' = CallLast("lookup", cur, cls, 0, r.func, NoExc, r.L)
    /\ last' = Last("lookup", 0, cur, 0, NoExc, NoObj, XidBlank, 0, {})
    /\ UNCHANGED <<alive, registry, vals, xid, pend, ns, sessvars, types, iregistry,
                   mutex, rthreads>>

NextLinks ==
    \/ \E interp \in Interps, exctype \in BOOLEAN : XIInit(interp, exctype)
    \/ \E interp \in Interps : XIFini(interp)
    \/ \E cur \in Interps, cls \in RegTypes, getdata \in {"_custom_shared", "NULL"} :
         \E fail \in AddFaults(cls) : LinkRegister(cur, cls, getdata, fail)
    \/ \E cur \in Interps, cls \in RegTypes : LinkUnregister(cur, cls)
    \/ \E cur \in Interps, cls \in LookupTypes \cup {"int"} : LinkLookup(cur, cls)
    \/ \E a \in Mortal : DestroyType(a)
    \/ \E a \in Mortal : NewType(a)

SpecLinks == InitReg /\ [][NextLinks]_vars

(***************************************************************************)
(* C32.  The built-in types are registered once.                           *)
(***************************************************************************)
\* the entries of the process-wide registry that are of type cls
GlobalOf(L, cls) ==
    {k \in DOMAIN ListOf(L, "global", 0) : L.item[ListOf(L, "global", 0)[k]].cls = cls}

\* the process-wide registry with its entries
GlobalState(L) ==
    [reg |-> L.global,
     entries |-> [k \in DOMAIN ListOf(L, "global", 0) |->
                    <<ListOf(L, "global", 0)[k], L.item[ListOf(L, "global", 0)[k]]>>]]

BuiltinsOnce ==
    links.global.initialized =>
        \A cls \in BuiltinTypes : Cardinality(GlobalOf(links, cls)) = 1

InitStep == rlast'.op = "init" /\ vars' # vars
FiniStep == rlast'.op = "fini" /\ vars' # vars

\* a second initialization adds nothing
InitIsIdempotent ==
    InitStep /\ links.global.initialized => GlobalState(links') = GlobalState(links)

\* another interpreter's init and fini leave the process-wide registry alone
OnlyMainInitFini ==
    (InitStep \/ FiniStep) /\ ~_Py_IsMainInterpreter(rlast'.cur)
        => GlobalState(links') = GlobalState(links)

MainInitPopulates ==
    InitStep /\ _Py_IsMainInterpreter(rlast'.cur) /\ ~links.global.initialized
        => /\ links'.global.initialized
           /\ \A cls \in BuiltinTypes : Cardinality(GlobalOf(links', cls)) = 1

\* the main interpreter's fini frees the entries and unsets the flag
MainFiniClears ==
    FiniStep /\ _Py_IsMainInterpreter(rlast'.cur)
        => /\ links'.global = RegistryBlank
           /\ \A k \in DOMAIN ListOf(links, "global", 0) :
                ~links'.item[ListOf(links, "global", 0)[k]].used

\* C32: while the process-wide registry is initialized it has exactly one
\* entry for each of NoneType, int, bytes, str, bool and float; an init of
\* an initialized registry adds nothing; only the main interpreter's init
\* and fini populate and clear the process-wide registry; after the main
\* interpreter's fini it is empty and not initialized.
C32_BuiltinsRegisteredOnce ==
    /\ []BuiltinsOnce
    /\ [][/\ InitIsIdempotent
          /\ OnlyMainInitFini
          /\ MainInitPopulates
          /\ MainFiniClears]_vars

\* The main interpreter's init was called on the initialized registry: the
\* type an extension had registered is there with the six built-in ones.
C32_Witness ==
    /\ rlast.op = "init" /\ _Py_IsMainInterpreter(rlast.cur)
    /\ links.global.initialized
    /\ GlobalOf(links, "custom") # {}
    /\ \A cls \in BuiltinTypes : Cardinality(GlobalOf(links, cls)) = 1

\* the main interpreter was initialized after another one had registered a
\* heap type: the built-in types are not in the first structs
InitAfterRegistration ==
    /\ rlast.op = "init" /\ _Py_IsMainInterpreter(rlast.cur)
    /\ links.global.initialized
    /\ links.item[1].used /\ links.item[1].cls = "H1"

\* the main interpreter's fini came while a static type was registered
FiniAfterRegistration ==
    /\ rlast.op = "fini" /\ _Py_IsMainInterpreter(rlast.cur)
    /\ links.local[1].initialized /\ links.local[1].head # 0
    /\ links.global = RegistryBlank

\* another interpreter was initialized while the main one was
SecondInterpreterInit ==
    /\ rlast.op = "init" /\ ~_Py_IsMainInterpreter(rlast.cur)
    /\ links.global.initialized
    /\ GlobalOf(links, "custom") # {}

(***************************************************************************)
(* C33.  The registry a call uses.                                         *)
(***************************************************************************)
\* an interpreter's registry with its entries
LocalState(L, i) ==
    [reg |-> L.local[i],
     entries |-> [k \in DOMAIN ListOf(L, "local", i) |->
                    <<ListOf(L, "local", i)[k], L.item[ListOf(L, "local", i)[k]]>>]]

RegistryCall == rlast'.op \in {"register", "unregister", "lookup"} /\ vars' # vars

\* the positions in a registry's list of the entries of the type object cls
Registered(L, which, cur, cls) ==
    {k \in DOMAIN ListOf(L, which, cur) :
        LET e == L.item[ListOf(L, which, cur)[k]]
        IN e.cls = cls /\ (e.weakref = <<>> \/ _PyWeakref_GET_REF(e.cls, e.weakref))}

\* the getdata a registry holds for cls, "NULL" when it holds none
GetdataIn(L, which, cur, cls) ==
    IF Registered(L, which, cur, cls) = {} THEN "NULL"
    ELSE L.item[ListOf(L, which, cur)[
             CHOOSE k \in Registered(L, which, cur, cls) :
                 \A j \in Registered(L, which, cur, cls) : k <= j]].getdata

\* a call for a static type leaves every interpreter's registry alone
StaticUsesGlobal ==
    RegistryCall /\ ~IsHeapType(rlast'.cls)
        => /\ \A i \in Interps : LocalState(links', i) = LocalState(links, i)
           /\ rlast'.op = "lookup"
                => rlast'.func = GetdataIn(links, "global", 0, rlast'.cls)
           /\ rlast'.op = "register" /\ rlast'.res = 0
                => Registered(links', "global", 0, rlast'.cls) # {}

\* a call for a heap type leaves the process-wide registry and the other
\* interpreters' registries alone
HeapUsesCurrent ==
    RegistryCall /\ IsHeapType(rlast'.cls)
        => /\ GlobalState(links') = GlobalState(links)
           /\ \A i \in Interps \ {rlast'.cur} :
                LocalState(links', i) = LocalState(links, i)
           /\ rlast'.op = "lookup"
                => rlast'.func = GetdataIn(links, "local", rlast'.cur, rlast'.cls)
           /\ rlast'.op = "register" /\ rlast'.res = 0
                => Registered(links', "local", rlast'.cur, rlast'.cls) # {}

\* C33: register, unregister and lookup use the process-wide registry for
\* a static type and the current interpreter's registry for a heap type:
\* the other registries are left as they were, a lookup answers from the
\* registry of the call and a registration ends up in it.
C33_RegistryRouting == [][StaticUsesGlobal /\ HeapUsesCurrent]_vars

\* A lookup in interpreter 1 did not find the heap type that interpreter 0
\* has registered.
C33_Witness ==
    /\ rlast.op = "lookup" /\ rlast.cur = 1 /\ rlast.cls = "H1"
    /\ rlast.func = "NULL"
    /\ Registered(links, "local", 0, "H1") # {}

\* interpreter 1 unregistered its entry of a heap type, interpreter 0 has its own
UnregisteredElsewhere ==
    /\ rlast.op = "unregister" /\ rlast.cur = 1 /\ rlast.cls = "H1" /\ rlast.res = 1
    /\ Registered(links, "local", 1, "H1") = {}
    /\ Registered(links, "local", 0, "H1") # {}

(***************************************************************************)
(* The specification of the lists of the registries: the main interpreter  *)
(* registers and looks up three heap types (in its own registry) and       *)
(* unregisters them and the built-in type int (in the process-wide one);   *)
(* heap types are destroyed and made anew, so that entries are evicted at  *)
(* the head, in the middle and at the end of a list; _PyXI_Fini clears the *)
(* registries and _PyXI_Init initializes them again.                       *)
(***************************************************************************)
ListTypes == {"int"} \cup HeapAddrs

\* the registries after the main interpreter's _PyXI_Init
LinksStarted == _PyXI_Init(LinksBlank, 0, TRUE).L

InitList == InitState(RegValues, LinksStarted)

NextList ==
    \/ \E cls \in HeapAddrs, fail \in {"none", "weakref"} :
         LinkRegister(0, cls, "_custom_shared", fail)
    \/ \E cls \in ListTypes : LinkUnregister(0, cls)
    \/ \E cls \in HeapAddrs : LinkLookup(0, cls)
    \/ \E a \in ScanAddrs : DestroyType(a)
    \/ \E a \in Mortal : NewType(a)
    \/ XIFini(0)
    \/ XIInit(0, TRUE)

SpecList == InitList /\ [][NextList]_vars

(***************************************************************************)
(* C36.  The list of a registry is well formed.                            *)
(***************************************************************************)
\* the registries there are
LinkedRegistries == {<<"global", 0>>} \cup {<<"local", i>> : i \in Interps}

\* every entry of the list l is met once
NoRepeats(l) == \A j, k \in DOMAIN l : l[j] = l[k] => j = k

WellFormed(L, which, cur) ==
    LET head == RegistryAt(L, which, cur).head
        l == ListOf(L, which, cur)
    IN /\ head # 0 => L.item[head].prev = 0
       /\ \A k \in DOMAIN l :
            /\ L.item[l[k]].used
            /\ L.item[l[k]].next # 0 => L.item[L.item[l[k]].next].prev = l[k]
            /\ L.item[l[k]].refcount >= 1
       /\ Len(l) <= MaxItems
       /\ NoRepeats(l)

ListsWellFormed == \A r \in LinkedRegistries : WellFormed(links, r[1], r[2])

\* the structs that hold an entry
UsedItems(L) == {a \in ItemAddrs : L.item[a].used}

\* the entries of the list l that are entries in L still
Kept(L, l) == SelectSeq(l, LAMBDA a : L.item[a].used)

\* a registration that made an entry
AddStep ==
    /\ rlast'.op = "register" /\ rlast'.res = 0 /\ vars' # vars
    /\ UsedItems(links') \ UsedItems(links) # {}

\* the registry the call of the step used
Routed == IF IsHeapType(rlast'.cls) THEN "local" ELSE "global"

\* The new entry is the head, with refcount 1, and behind it are the
\* entries that were there and were not evicted, in the order they had.
NewEntryIsHead ==
    AddStep =>
        LET l == ListOf(links, Routed, rlast'.cur)
            m == ListOf(links', Routed, rlast'.cur)
        IN /\ m # <<>>
           /\ m[1] \notin UsedItems(links)
           /\ links'.item[m[1]].cls = rlast'.cls
           /\ links'.item[m[1]].refcount = 1
           /\ Tail(m) = Kept(links', l)

\* C36: the list of every registry is well formed (the head has no
\* predecessor, the successor of an entry has the entry as predecessor,
\* no entry is met twice) and every entry has a reference count of 1 at
\* least; a new entry is put at the head of its list.
C36_RegistryListIntegrity == []ListsWellFormed /\ [][NewEntryIsHead]_vars

\* A lookup evicted the entry in the middle of the interpreter's list: the
\* list had three entries and has the first and the last of them.
C36_Witness ==
    /\ rlast.op = "lookup" /\ rlast.func # "NULL"
    /\ Len(rlast.before) = 3
    /\ rlast.after = <<rlast.before[1], rlast.before[3]>>
    /\ rlast.after = ListOf(links, "local", 0)

\* the type int was unregistered: the process-wide list lost an entry in
\* the middle
RemovedInTheMiddle ==
    /\ rlast.op = "unregister" /\ rlast.cls = "int" /\ rlast.res = 1
    /\ Len(ListOf(links, "global", 0)) = Len(BuiltinGetdata) - 1

\* two entries of destroyed types were evicted by one registration
TwoEvicted ==
    /\ rlast.op = "register" /\ rlast.cls = "H3" /\ rlast.res = 0
    /\ ~types["H1"].alive /\ ~types["H2"].alive
    /\ Len(ListOf(links, "local", 0)) = 1

\* an entry counts two registrations
CountedTwice == \E a \in UsedItems(links) : links.item[a].refcount = MaxRefs

\* the registries were cleared while the interpreter's list had entries
ClearedWithEntries ==
    /\ rlast.op = "fini"
    /\ UsedItems(links) = {}
    /\ \E a \in HeapAddrs : ~types[a].alive

(***************************************************************************)
(* C35.  A session that was left can be entered again.                     *)
(***************************************************************************)
\* the step is a call of _PyXI_Enter or _PyXI_Exit that returned
SessionCallReturned == slast' # slast /\ slast'.op \in {"enter", "exit"}

\* the step left the session: a _PyXI_Enter that failed, or a _PyXI_Exit
SessionLeft ==
    /\ slast' # slast
    /\ \/ slast'.op = "exit"
       \/ slast'.op = "enter" /\ slast'.res = -1

AppliedCaptured == slast' # slast /\ slast'.op = "applycaptured"

\* what _enter_session asserts of the session
EnterSessionAsserts(sess) ==
    /\ ~sess.own_init_tstate
    /\ sess.init_tstate = 0
    /\ sess.prev_tstate = 0
    /\ ~sess.running
    /\ sess.main_ns = -1
    /\ sess.exc_override = "NULL"
    /\ sess.exc = <<>>

OverrideUnsetAtReturn ==
    SessionCallReturned => sessions'[slast'.s].exc_override = "NULL"

\* when nothing was captured the session is as _enter_session wants it;
\* when something was, it is but for the captured exception
LeftSessionIsIdle ==
    SessionLeft =>
        EnterSessionAsserts([sessions'[slast'.s] EXCEPT !.exc = <<>>])

CapturedIsApplied ==
    AppliedCaptured => EnterSessionAsserts(sessions'[slast'.s])

\* a session that no thread uses is as _enter_session wants it
UnusedSessionsIdle ==
    \A s \in Sessions : sessions[s].by = 0 => EnterSessionAsserts(sessions[s])

\* C35: when _PyXI_Enter or _PyXI_Exit returns, the session's override is
\* unset; after a failed _PyXI_Enter or a _PyXI_Exit, and the
\* _PyXI_ApplyCapturedException that follows when an exception was
\* captured, all that _enter_session asserts holds of the session.
C35_SessionReusable ==
    /\ []UnusedSessionsIdle
    /\ [][/\ OverrideUnsetAtReturn
          /\ LeftSessionIsIdle
          /\ CapturedIsApplied]_vars

\* The exception captured by a _PyXI_Enter that failed at the dict of
\* __main__ was applied, and the session is idle again.
C35_Witness ==
    /\ slast.op = "applycaptured"
    /\ slast.info.code = _PyXI_ERR_MAIN_NS_FAILURE
    /\ EnterSessionAsserts(sessions[slast.s])

\* a _PyXI_Enter failed and captured nothing: the copy of the exception failed
FailedEnterCapturedNothing ==
    /\ slast.op = "enter" /\ slast.res = -1 /\ slast.switched
    /\ sessions[slast.s].exc = <<>>
    /\ EnterSessionAsserts(sessions[slast.s])

\* a _PyXI_Exit captured the exception the script had raised
ExitCaptured ==
    /\ slast.op = "exit"
    /\ sessions[slast.s].exc # <<>>
    /\ sessions[slast.s].exc_override = "NULL"

\* a session was entered while the first one held what it had captured
EnteredNextSession ==
    /\ slast.op = "enter" /\ slast.res = 0 /\ slast.s = 2
    /\ sessions[1].exc # <<>> /\ sessions[1].init_tstate = 0

(***************************************************************************)
(* _PyXI_Enter while other releases are in flight: a caller produces a     *)
(* struct of its own and releases it from any interpreter, so that the     *)
(* queue of the calling interpreter holds calls when _PyXI_Enter frees the *)
(* namespace it made of nsupdates.                                         *)
(***************************************************************************)
\* the failures after the switch, the exception being copied without failure
FreeFaults(nsupdates) ==
    {f \in UnwindFaults(nsupdates) : f.capture = "none"}

NextEnterFree ==
    \/ \E s \in Sessions, interp \in Interps, nsupdates \in NsUpdates :
         \E f \in FreeFaults(nsupdates) : Enter(1, s, interp, nsupdates, f)
    \/ \E s \in Sessions : Exit(1, s, "none")
    \/ \E s \in Sessions : ApplyCapturedException(1, s, "RunFailedError")
    \/ Handle(1)
    \/ \E i \in Interps : RunPending(i)
    \/ \E v \in vals : Produce(v, 0, FALSE, Builtin)
    \/ \E h \in XidIds, cur \in Interps : Release(h, cur)

SpecEnterFree == InitSession /\ [][NextEnterFree]_vars

(***************************************************************************)
(* C34.  _PyXI_Enter frees the namespace it made.                          *)
(***************************************************************************)
\* the structs of the namespace the step made of nsupdates
MadeByEnter == {h \in XidIds : xid[h].mem = "none" /\ xid'[h].mem = "heap"}

\* the step is a _PyXI_Enter whose conversion of nsupdates gave a namespace
EnterWithNamespace ==
    /\ slast' # slast /\ slast'.op = "enter" /\ slast'.switched
    /\ MadeByEnter # {}

\* the calls for struct h that are queued after the step
CallsFor(h) ==
    {<<i, k>> \in Interps \X (1..MaxPending) :
        k <= Len(pend'[i]) /\ pend'[i][k].arg = h}

\* the release of h was made once: its payload was destroyed once or one
\* call for it is queued, and its storage was not used after a free
ReleasedOnce(h) ==
    /\ Cardinality(CallsFor(h)) + xid'[h].nfree = 1
    /\ ~xid'[h].fault

ReleasedInCall(h) ==
    /\ xid'[h].nfree = 1 /\ ~HasPayload(xid'[h])
    /\ CallsFor(h) = {}

ReleasePosted(h) ==
    /\ xid'[h].nfree = 0 /\ HasPayload(xid'[h])
    /\ \E c \in CallsFor(h) : c[1] = xid'[h].interpid

\* On success the namespace is freed in the target interpreter: a struct of
\* another interpreter gets a call queued on its owner.
FreedInTarget ==
    slast'.res = 0 =>
        /\ tstates'[current'[slast'.t]].interp = slast'.interp
        /\ \A h \in MadeByEnter :
             IF xid'[h].interpid = slast'.interp THEN ReleasedInCall(h)
             ELSE ReleasePosted(h)

\* On failure it is freed after the switch back, in the caller's interpreter,
\* which owns the structs.
FreedInCaller ==
    slast'.res = -1 =>
        /\ current'[slast'.t] = slast'.before
        /\ \A h \in MadeByEnter :
             /\ xid'[h].interpid = tstates[slast'.before].interp
             /\ ReleasedInCall(h)

\* C34: a _PyXI_Enter that made a namespace of nsupdates frees it once on
\* every path: on success in the target interpreter, so that the release
\* of a struct of the calling interpreter is a call queued on the calling
\* interpreter; on failure after the switch back, in the call.
C34_NamespaceFreedOnceByEnter ==
    [][EnterWithNamespace =>
          /\ \A h \in MadeByEnter : ReleasedOnce(h)
          /\ FreedInTarget
          /\ FreedInCaller]_vars

\* the queue of the owner of h had room for a call before the step
QueueHadRoom(h) == Len(pend[xid'[h].interpid]) < MaxPending

\* the same, for the calls of _PyXI_Enter that found room in the queue
FreedOnceWithRoom ==
    [][EnterWithNamespace /\ (\A h \in MadeByEnter : QueueHadRoom(h)) =>
          /\ \A h \in MadeByEnter : ReleasedOnce(h)
          /\ FreedInTarget
          /\ FreedInCaller]_vars

\* A _PyXI_Enter succeeded and the struct of its namespace, of the calling
\* interpreter, has its payload and no call queued: the queue was full.
EnterDroppedRelease ==
    /\ slast.op = "enter" /\ slast.res = 0
    /\ \E h \in XidIds :
         /\ ~xid[h].direct /\ xid[h].mem = "heap" /\ HasPayload(xid[h])
         /\ xid[h].interpid # slast.interp
         /\ ~Posted(h)

\* a _PyXI_Enter succeeded and the release of its struct is queued
EnterPostedRelease ==
    /\ slast.op = "enter" /\ slast.res = 0
    /\ \E h \in XidIds : ~xid[h].direct /\ xid[h].mem = "heap" /\ Posted(h)

\* a _PyXI_Enter failed after the switch and released its struct in the call
FailedEnterReleased ==
    /\ slast.op = "enter" /\ slast.res = -1 /\ slast.stage \in {"running", "main", "apply"}
    /\ \E h \in XidIds : ~xid[h].direct /\ xid[h].mem = "heap" /\ xid[h].nfree = 1

\* a _PyXI_Enter into the calling interpreter released its struct in the call
EnterSameInterpreter ==
    /\ slast.op = "enter" /\ slast.res = 0
    /\ tstates[slast.before].interp = slast.interp
    /\ \E h \in XidIds : ~xid[h].direct /\ xid[h].mem = "heap" /\ xid[h].nfree = 1

====
